---- MODULE Spec2Model ----
(***************************************************************************)
(* Session record reconciliation and attendance-state engine of the RFID   *)
(* attendance manager: SessionManager.add_record (the read-modify-write    *)
(* upsert on the session file) and the scan resolution engine of           *)
(* ScanWindow (normalization, lookup, classification, terminal actions,    *)
(* manual addition).                                                       *)
(*                                                                         *)
(* Representation.  A card id or scan token is a sequence of one-character *)
(* strings, so that strip / isdigit / zfill act on it as in Python.  A cell *)
(* of the session table is modelled by its value after pandas' missing     *)
(* value is read as the empty string.  A session file carries the mapped   *)
(* columns of the column map (the session setup writes them); a file       *)
(* without the mapped card_id column makes add_record raise, which is one  *)
(* of the outcomes of a call.  Notes are a sequence of lines, the lines of *)
(* the newline-joined text.                                                *)
(***************************************************************************)
EXTENDS Integers, Sequences, FiniteSets, TLC

(***************************************************************************)
(* Bounds of the model.                                                    *)
(***************************************************************************)
MaxTok == 3
MaxDigits == 9
MaxNoteLines == 3
MaxAdds == 1
MaxUnknown == 2
MaxCancel == 1
MaxEdits == 1
MaxRows == 2

(***************************************************************************)
(* Program constants.                                                      *)
(***************************************************************************)
PadWidth == 8

Digits == {"0", "4"}
Letters == {"n", "a", "N"}
Space == " "
Newline == "\n"
Whitespace == {Space, Newline}
Chars == Digits \cup Letters \cup {Space}

(***************************************************************************)
(* Python string primitives on character sequences.                        *)
(***************************************************************************)
RECURSIVE lstrip(_)
lstrip(s) == IF s # <<>> /\ Head(s) \in Whitespace THEN lstrip(Tail(s)) ELSE s

RECURSIVE rstrip(_)
rstrip(s) ==
    IF s # <<>> /\ s[Len(s)] \in Whitespace
    THEN rstrip(SubSeq(s, 1, Len(s) - 1)) ELSE s

strip(s) == rstrip(lstrip(s))

isdigit(s) == s # <<>> /\ \A i \in 1..Len(s) : s[i] \in Digits

lowerChar(c) == IF c = "N" THEN "n" ELSE c

lower(s) == [i \in 1..Len(s) |-> lowerChar(s[i])]

RECURSIVE zfill(_, _)
zfill(s, width) == IF Len(s) >= width THEN s ELSE zfill(<<"0">> \o s, width)

(***************************************************************************)
(* The places of the program that normalize a card id.                     *)
(***************************************************************************)
\* ScanWindow._clean_value on a string: strip, and the text "nan" is empty.
_clean_value(value) ==
    LET text == strip(value)
    IN  IF lower(text) = <<"n", "a", "n">> THEN <<>> ELSE text

\* scan_normalize_card without the trim of _clean_value: the fault the
\* padding properties must detect.
scan_normalize_card_untrimmed(value) ==
    IF value # <<>> /\ isdigit(value) THEN zfill(value, PadWidth) ELSE value

\* ScanWindow.scan_normalize_card
scan_normalize_card(value) ==
    LET text == _clean_value(value)
    IN  IF text # <<>> /\ isdigit(text) THEN zfill(text, PadWidth) ELSE text

\* pad_card_id without the zero padding: the fault the property of the row
\* ids must detect.
pad_card_id_unpadded(val) == strip(val)

\* pad_card_id, the local function of ScanWindow._load_existing
pad_card_id(val) ==
    LET val_str == strip(val)
    IN  IF isdigit(val_str) THEN zfill(val_str, PadWidth) ELSE val_str

\* ScanWindow._launch_add_student_dialog, AddStudentDialog.__init__ and
\* ScanWindow._handle_add_student_submission, applied in this order to the
\* card id handed to a manual addition.  The empty result is the card id
\* that is false in Python: the submission then takes the next Unknown id.
manual_card_id(card_id) ==
    LET raw_card   == strip(card_id)
        normalized == IF isdigit(raw_card) THEN zfill(raw_card, PadWidth) ELSE raw_card
        dialog     == IF normalized # <<>> /\ isdigit(normalized)
                      THEN zfill(normalized, PadWidth) ELSE normalized
        cid        == strip(dialog)
    IN  IF isdigit(cid) THEN zfill(cid, PadWidth) ELSE cid

\* App.import_csv, one value of the card column; null_counter is the number
\* the next blank id gets.
DecimalChar == <<"1", "2", "3", "4", "5", "6", "7", "8", "9">>

import_card_id(val, null_counter) ==
    LET val_str == strip(val)
    IN  IF val_str = <<>> \/ lower(val_str) = <<"n", "a", "n">>
        THEN <<"n", "u", "l", "l", " ", DecimalChar[null_counter]>>
        ELSE IF isdigit(val_str) THEN zfill(val_str, PadWidth) ELSE val_str

(***************************************************************************)
(* The session table.                                                      *)
(***************************************************************************)
\* One line of the table.  The fields are the logical fields of the column
\* map; extra is a column of the file that no logical field maps to.
Row(card, sid, name, phone, exam, hw, extra, att, notes, ts) ==
    [card_id |-> card, student_id |-> sid, name |-> name, phone |-> phone,
     exam |-> exam, homework |-> hw, extra |-> extra,
     attendance |-> att, notes |-> notes, timestamp |-> ts]

\* The record handed to add_record; a key the caller leaves out is "".
Rec(card, sid, name, phone, exam, hw, att, notes, ts) ==
    [card_id |-> card, student_id |-> sid, name |-> name, phone |-> phone,
     exam |-> exam, homework |-> hw,
     attendance |-> att, notes |-> notes, timestamp |-> ts]

NoRec == Rec(<<>>, "", "", "", "", "", "", <<>>, "")

\* mask = df[card_col].astype(str) == str(rec["card_id"])
mask(df, rec) == {i \in 1..Len(df) : df[i].card_id = rec.card_id}

FirstOf(S) == CHOOSE i \in S : \A j \in S : i <= j

\* The appended row with the record's grades copied too: the fault the
\* property of the appended row must detect.
new_row_copies_grades(rec) ==
    Row(rec.card_id, rec.student_id, rec.name, rec.phone, rec.exam, rec.homework,
        "", rec.attendance, rec.notes, rec.timestamp)

\* The row add_record appends for a card that the mask does not find.
new_row(rec) ==
    Row(rec.card_id, rec.student_id, rec.name, rec.phone, "", "", "",
        rec.attendance, rec.notes, rec.timestamp)

\* add_record that always stores the incoming timestamp: the fault the
\* timestamp properties must detect.
add_record_overwrites_timestamp(df, rec) ==
    LET m == mask(df, rec)
    IN  IF m # {}
        THEN [i \in 1..Len(df) |->
                IF i \in m
                THEN [df[i] EXCEPT !.timestamp = rec.timestamp,
                                   !.attendance = rec.attendance,
                                   !.notes = rec.notes]
                ELSE df[i]]
        ELSE Append(df, new_row(rec))

\* add_record whose append path writes the new row alone: the fault the
\* properties of the append path must detect.
add_record_writes_only_new(df, rec) ==
    LET m == mask(df, rec)
    IN  IF m # {}
        THEN [i \in 1..Len(df) |->
                IF i \in m
                THEN [df[i] EXCEPT !.timestamp = IF rec.timestamp # ""
                                                 THEN rec.timestamp
                                                 ELSE df[FirstOf(m)].timestamp,
                                   !.attendance = rec.attendance,
                                   !.notes = rec.notes]
                ELSE df[i]]
        ELSE <<new_row(rec)>>

\* SessionManager.add_record between read_data and write_data: the table
\* written for the table df read and the record rec.
add_record(df, rec) ==
    LET m == mask(df, rec)
    IN  IF m # {}
        THEN LET existing_timestamp == df[FirstOf(m)].timestamp
                 ts == IF rec.timestamp # "" THEN rec.timestamp
                       ELSE existing_timestamp
             IN  [i \in 1..Len(df) |->
                    IF i \in m
                    THEN [df[i] EXCEPT !.timestamp = ts,
                                       !.attendance = rec.attendance,
                                       !.notes = rec.notes]
                    ELSE df[i]]
        ELSE Append(df, new_row(rec))

\* The outcomes of one call of add_record: "ok", or "error" for the
\* exception that ends it: read_data raises when the file cannot be read,
\* df[card_col] raises when the mapped card column is not in the file,
\* write_data raises when the file cannot be opened for writing.  None of
\* the three has written anything when it is raised.
IoOutcomes == {"ok", "error"}

add_record_raises(io) == io # "ok"

add_record_op(df, rec) == IF mask(df, rec) # {} THEN "update" ELSE "append"

(***************************************************************************)
(* State.                                                                  *)
(***************************************************************************)
VARIABLES
    disk,             \* the session file: the table read_data returns
    loaded,           \* ScanWindow.df, the table read at construction
    restrictions,     \* SETTINGS["restrictions"]: [exam, homework]
    read_only,        \* ScanWindow.read_only
    tree,             \* the Treeview: iid -> cells of the row
    all_iids,         \* ScanWindow._all_iids
    scan_focus_ctx,   \* ScanWindow.scan_focus_ctx (status "none" is None)
    notes_box,        \* text of focus_view.notes
    scan_focus_timer, \* the id scan_focus_timer holds, and the callbacks of scan_focus_clear pending in Tk
    manual_additions, \* ScanWindow._manual_additions
    cancellations,    \* ScanWindow._cancellations
    unknown_counter,  \* ScanWindow._unknown_counter, -1 before it is set
    last,             \* the call of add_record of the last step: path taken, record
    act,              \* the handler that made that call: name, result
    pc,               \* writer processes: "idle", or "read" between read_data and write_data
    p_df,             \* the table each writer process has read
    p_rec,            \* the record each writer process upserts
    p_lost,           \* the record another process wrote since this one read
    scan_entry,       \* text of the scan entry
    norm_out,         \* results of the normalizers on scan_entry
    columns,          \* ScanWindow.tree["columns"], fixed when the window is built
    settings_window,  \* App.settings_window exists
    mapping_controls, \* SettingsWindow.mapping_controls: field -> combo value, "" the placeholder
    var_restrictions, \* SettingsWindow.var_exam, var_homework
    column_map,       \* App.column_map
    mapping_file,     \* content of MAPPING_FILE
    settings_file,    \* content of SETTINGS_FILE: the restrictions it stores
    append_args,      \* arguments of a call of scan_append_notes
    append_out,       \* what the call returned
    adapter_path,     \* the path given to read_data and write_data
    adapter_file,     \* what is stored under the path: "absent", "csv" or "xlsx" content
    adapter_out,      \* the last call of the adapter: operation, parser or writer used, result
    file_type,        \* SETTINGS["file_type"]
    session_files,    \* the Sessions folder: path -> the file there and its table
    data_df,          \* App.data_df, the imported table
    session_path,     \* SessionManager.session_path of the last session manager built
    opened,           \* the last start or opening of a session: how, selected path, table the window loaded
    import_file       \* the file chosen in import_csv: its mapped columns and its rows

storeVars == <<disk, last>>
uiVars    == <<loaded, restrictions, read_only, tree, all_iids, scan_focus_ctx,
               notes_box, scan_focus_timer, manual_additions, cancellations,
               unknown_counter, act, columns>>
procVars  == <<pc, p_df, p_rec, p_lost>>
normVars  == <<scan_entry, norm_out>>
settingsVars == <<settings_window, mapping_controls, var_restrictions, column_map,
                  mapping_file, settings_file>>
noteVars  == <<append_args, append_out>>
adapterVars == <<adapter_path, adapter_file, adapter_out>>
sessionVars == <<file_type, session_files, data_df, session_path, opened, import_file>>
appVars   == <<adapterVars, sessionVars>>
sideVars  == <<normVars, settingsVars, noteVars, appVars>>
vars      == <<storeVars, uiVars, procVars, sideVars>>

Procs == {1, 2}

NoLast == [op |-> "none", rec |-> NoRec, proc |-> 0, lost |-> NoRec]
NoAct  == [name |-> "none", result |-> "done"]
NoNorm == [done |-> FALSE, scan |-> <<>>, load |-> <<>>, manual |-> <<>>,
           import |-> <<>>]
NoArgs == [done |-> FALSE, original |-> <<>>, addition |-> <<>>]
NoCall == [op |-> "none", format |-> "none", result |-> "none"]

\* No call of the adapter was made.
AdapterIdle ==
    /\ adapter_path = <<>>
    /\ adapter_file = "absent"
    /\ adapter_out = NoCall

\* What is under a path of the Sessions folder, and a table held in memory.
NoFile   == [there |-> FALSE, table |-> <<>>]
File(t)  == [there |-> TRUE, table |-> t]
NoPath   == [name |-> "", ext |-> ""]
NoImport == [columns |-> {}, rows |-> <<>>]
NoOpened == [by |-> "none", selected |-> NoPath, created |-> FALSE, ok |-> FALSE,
             df |-> NoFile]

\* No session was started or opened from the main window.
SessionsIdle ==
    /\ file_type = "xlsx"
    /\ session_files = <<>>
    /\ data_df = NoFile
    /\ session_path = NoPath
    /\ opened = NoOpened
    /\ import_file = NoImport

\* The application outside the scan window, before anything is done in it.
AppIdle == AdapterIdle /\ SessionsIdle

(***************************************************************************)
(* The roster in memory.                                                   *)
(***************************************************************************)
\* cols of ScanWindow._build_ui: the columns of the Treeview.
tree_columns(restr) ==
    {"card_id", "student_id", "name", "phone", "attendance", "notes", "timestamp"}
    \cup (IF restr.exam THEN {"exam"} ELSE {})
    \cup (IF restr.homework THEN {"homework"} ELSE {})

\* The cells of one Treeview row; a column the Treeview does not have reads "".
Cells(card, sid, name, phone, exam, hw, att, notes, ts) ==
    [card_id |-> card, student_id |-> sid, name |-> name, phone |-> phone,
     exam |-> exam, homework |-> hw,
     attendance |-> att, notes |-> notes, timestamp |-> ts]

\* values of ScanWindow._load_existing for one row of the table.
load_cells(row, restr) ==
    Cells(_clean_value(row.card_id), row.student_id, row.name, row.phone,
          IF restr.exam THEN row.exam ELSE "",
          IF restr.homework THEN row.homework ELSE "",
          row.attendance, row.notes, row.timestamp)

\* ScanWindow._load_existing: one Treeview row per table row, under the
\* padded card id.  The Treeview refuses a second row under one iid, so the
\* window is only built from a table whose padded ids are distinct.
load_iids(df) == [i \in 1..Len(df) |-> pad_card_id(df[i].card_id)]

load_tree(df, restr) ==
    [iid \in {pad_card_id(df[i].card_id) : i \in 1..Len(df)} |->
        LET i == CHOOSE j \in 1..Len(df) : pad_card_id(df[j].card_id) = iid
        IN  load_cells(df[i], restr)]

\* ScanWindow.scan_tree_get
scan_tree_get(iid, column) ==
    IF column \notin columns THEN "" ELSE tree[iid][column]

(***************************************************************************)
(* The scan resolution engine: pure parts.                                 *)
(***************************************************************************)
\* ScanWindow.scan_lookup_matches.  The result is the set of the list the
\* code returns; the order of the list is only used to pick the row the
\* Treeview selects.
scan_lookup_matches(card_id) ==
    LET normalized == scan_normalize_card(card_id)
    IN  IF normalized = <<>> THEN {}
        ELSE {all_iids[k] : k \in {j \in 1..Len(all_iids) :
                 /\ all_iids[j] \in DOMAIN tree
                 /\ \/ scan_normalize_card(all_iids[j]) = normalized
                    \/ scan_normalize_card(scan_tree_get(all_iids[j], "card_id"))
                           = normalized}}

\* ScanWindow.scan_collect_missing_tasks
scan_collect_missing_tasks(iid) ==
    LET exam_grade == scan_tree_get(iid, "exam")
        hw_grade   == scan_tree_get(iid, "homework")
        exam == IF /\ restrictions.exam
                   /\ "exam" \in columns
                   /\ (exam_grade = "" \/ exam_grade = "0")
                THEN <<"exam">> ELSE <<>>
        hw   == IF /\ restrictions.homework
                   /\ "homework" \in columns
                   /\ (hw_grade = "" \/ hw_grade = "0")
                THEN <<"homework">> ELSE <<>>
    IN  exam \o hw

\* ScanWindow.scan_describe_tasks
task_label(task) == IF task = "exam" THEN "Exam" ELSE "Homework"

scan_describe_tasks(tasks) ==
    IF tasks = <<>> THEN ""
    ELSE IF Len(tasks) = 1 THEN task_label(tasks[1])
    ELSE task_label(tasks[1]) \o " & " \o task_label(tasks[2])

\* ScanWindow.scan_append_notes on line sequences: joining two non-empty
\* texts with one newline is the concatenation of their lines.
scan_append_notes(original, addition) ==
    IF addition = <<>> THEN original
    ELSE IF original = <<>> THEN addition
    ELSE original \o addition

Placeholder == <<"Add notes here...">>

\* ScanWindow.scan_collect_new_note, for the text box of the notes box.
scan_collect_new_note(box) == IF box = Placeholder THEN <<>> ELSE box

\* The focus context.  iid <<>> is None (the not_found context) or no key
\* (the duplicate context).
Ctx(iid, card, status, notes, missing, attended, focus, skip) ==
    [iid |-> iid, card_id |-> card, status |-> status, existing_notes |-> notes,
     missing_tasks |-> missing, already_attended |-> attended,
     focus_iids |-> focus, skip_filter |-> skip]

NoCtx == Ctx(<<>>, <<>>, "none", <<>>, <<>>, FALSE, {}, FALSE)

\* scan_determine_status that only looks at the exam: the fault the
\* classification property must detect.
scan_determine_status_exam_only(status, found, missing) ==
    IF status \in {"not_found", "duplicate"} THEN status
    ELSE IF ~found THEN "not_found"
    ELSE IF \E k \in 1..Len(missing) : missing[k] = "exam" THEN "missing_exam"
    ELSE "ok"

\* ScanWindow.scan_determine_status on the found flag and the missing tasks.
scan_determine_status(status, found, missing) ==
    IF status \in {"not_found", "duplicate"} THEN status
    ELSE IF ~found THEN "not_found"
    ELSE IF missing # <<>>
         THEN (IF \E k \in 1..Len(missing) : missing[k] = "exam"
               THEN "missing_exam" ELSE "missing_homework")
    ELSE "ok"

\* ScanWindow.scan_build_context_for_iid
scan_build_context_for_iid(iid) ==
    LET missing == scan_collect_missing_tasks(iid)
    IN  Ctx(iid, scan_normalize_card(iid),
            scan_determine_status("", TRUE, missing),
            scan_tree_get(iid, "notes"), missing,
            scan_tree_get(iid, "attendance") = "attend", {iid}, FALSE)

\* ScanWindow.scan_build_not_found_context
scan_build_not_found_context(card_id) ==
    Ctx(<<>>, card_id, "not_found", <<>>, <<>>, FALSE, {}, FALSE)

\* The context scan_on_scan builds for more than one match.
duplicate_context(normalized, matches) ==
    Ctx(<<>>, normalized, "duplicate", <<>>, <<>>, FALSE, matches, TRUE)

\* _update_action_buttons that also shows the cancel button for a record that
\* misses a requirement: the fault the property of the offered actions must
\* detect.
buttons_to_show_with_cancel(kind, already_attended) ==
    IF kind = "not_found" THEN {"add_student"}
    ELSE IF kind \in {"missing_exam", "missing_homework"}
         THEN {"deny", "override", "complete"}
              \cup (IF already_attended THEN {"cancel"} ELSE {})
    ELSE IF kind = "ok" /\ already_attended THEN {"cancel"}
    ELSE {}

\* ScanWindow._update_action_buttons: the buttons packed for a status.
buttons_to_show(kind, already_attended) ==
    IF kind = "not_found" THEN {"add_student"}
    ELSE IF kind \in {"missing_exam", "missing_homework"}
         THEN {"deny", "override", "complete"}
    ELSE IF kind = "ok" /\ already_attended THEN {"cancel"}
    ELSE {}

offered == IF scan_focus_ctx.status = "none" THEN {}
           ELSE buttons_to_show(scan_focus_ctx.status,
                                scan_focus_ctx.already_attended)

\* The text scan_focus_show puts in the notes box.
shown_notes(ctx) ==
    IF ctx.existing_notes # <<>> THEN ctx.existing_notes ELSE Placeholder

(***************************************************************************)
(* Committing attendance.                                                  *)
(***************************************************************************)
\* The clock readings scan_now_tag can return.
NowTags == {"[09:15:00]"}

\* ScanWindow._build_record_payload
_build_record_payload(code, attendance, notes, timestamp) ==
    Rec(code, scan_tree_get(code, "student_id"), scan_tree_get(code, "name"),
        scan_tree_get(code, "phone"), scan_tree_get(code, "exam"),
        scan_tree_get(code, "homework"), attendance, notes, timestamp)

\* ScanWindow._set_attendance reaches add_record.
set_attendance_calls(code, attendance, warn_on_duplicate) ==
    /\ ~read_only
    /\ code \in DOMAIN tree
    /\ ~(/\ warn_on_duplicate
         /\ attendance = "attend"
         /\ scan_tree_get(code, "attendance") = "attend")

\* _set_attendance without the try/except around add_record's failure: the
\* fault the failure property must detect.
set_attendance_ignores_error(code, attendance, warn_on_duplicate, io) ==
    set_attendance_calls(code, attendance, warn_on_duplicate)

\* ScanWindow._set_attendance returns True.
set_attendance_ok(code, attendance, warn_on_duplicate, io) ==
    /\ set_attendance_calls(code, attendance, warn_on_duplicate)
    /\ ~add_record_raises(io)

\* ScanWindow._update_row
_update_row(t, code, attendance, notes, timestamp) ==
    IF code \notin DOMAIN t THEN t
    ELSE [t EXCEPT ![code].attendance = attendance,
                   ![code].notes = notes,
                   ![code].timestamp = timestamp]

\* A call of add_record that works on the table read at construction
\* instead of reading the file again: the fault the update property must
\* detect.
StoreCall_cached(rec, io) ==
    IF add_record_raises(io)
    THEN /\ disk' = disk
         /\ last' = [op |-> "fail", rec |-> NoRec, proc |-> 0, lost |-> NoRec]
    ELSE /\ disk' = add_record(loaded, rec)
         /\ last' = [op |-> add_record_op(loaded, rec), rec |-> rec, proc |-> 0,
                     lost |-> NoRec]

\* What one call of add_record leaves behind: the file and the record of
\* the call.
StoreCall(rec, io) ==
    IF add_record_raises(io)
    THEN /\ disk' = disk
         /\ last' = [op |-> "fail", rec |-> NoRec, proc |-> 0, lost |-> NoRec]
    ELSE /\ disk' = add_record(disk, rec)
         /\ last' = [op |-> add_record_op(disk, rec), rec |-> rec, proc |-> 0,
                     lost |-> NoRec]

NoStoreCall == disk' = disk /\ last' = NoLast

\* ScanWindow.scan_commit_attendance -> _set_attendance(code, attendance,
\* notes, warn_on_duplicate=False, timestamp_override=tag): file and roster.
scan_commit_attendance(code, attendance, notes, tag, io) ==
    IF set_attendance_calls(code, attendance, FALSE)
    THEN /\ StoreCall(_build_record_payload(code, attendance, notes, tag), io)
         /\ tree' = IF set_attendance_ok(code, attendance, FALSE, io)
                    THEN _update_row(tree, code, attendance, notes, tag)
                    ELSE tree
    ELSE NoStoreCall /\ tree' = tree

\* The lines of notes in the roster; runs are bounded by MaxNoteLines of them.
RECURSIVE LinesIn(_, _)
LinesIn(t, S) ==
    IF S = {} THEN 0
    ELSE LET iid == CHOOSE x \in S : TRUE
         IN  Len(t[iid].notes) + LinesIn(t, S \ {iid})

RoomFor(code, notes) ==
    LinesIn(tree, DOMAIN tree \ {code}) + Len(notes) <= MaxNoteLines

\* The timer of the focus view.  id is what self.scan_focus_timer holds,
\* <<>> for None; pending are the callbacks that after() scheduled and that
\* neither ran nor were cancelled, each named by the row whose auto-attend
\* scheduled it.
NoTimer == [id |-> <<>>, pending |-> {}]

\* ScanWindow.scan_focus_cancel_timer
scan_focus_cancel_timer(t) ==
    IF t.id # <<>> THEN [id |-> <<>>, pending |-> t.pending \ {t.id}] ELSE t

\* ScanWindow.scan_focus_schedule_clear, called by the auto-attend of row iid.
scan_focus_schedule_clear(t, iid) ==
    LET cancelled == scan_focus_cancel_timer(t)
    IN  [id |-> iid, pending |-> cancelled.pending \cup {iid}]

\* scan_focus_show that leaves a pending timer alone: the fault the
\* properties of the timer must detect.
scan_focus_show_keeps_timer(t) == t

\* The first statement of ScanWindow.scan_focus_show.
scan_focus_show_timer(t) == scan_focus_cancel_timer(t)

\* ScanWindow.scan_focus_clear, with the timer as the caller found it.
scan_focus_clear_from(t) ==
    /\ scan_focus_timer' = scan_focus_cancel_timer(t)
    /\ scan_focus_ctx' = NoCtx
    /\ notes_box' = Placeholder

\* ScanWindow.scan_focus_clear
scan_focus_clear == scan_focus_clear_from(scan_focus_timer)

\* ScanWindow.scan_focus_show after its first statement: the context and the
\* notes box.
scan_focus_show(ctx) ==
    /\ scan_focus_ctx' = ctx
    /\ notes_box' = shown_notes(ctx)

\* The record of a handler that called add_record: its name and what it
\* returned, "committed" for True and "failed" for False; "returned" for a
\* handler that returned before it did anything.  After any other step the
\* record is NoAct.
Ran(name, result) ==
    act' = IF result = "done" THEN NoAct ELSE [name |-> name, result |-> result]

Result(ok) == IF ok THEN "committed" ELSE "failed"

UIFrame == UNCHANGED <<loaded, restrictions, read_only, columns, procVars, sideVars>>

Counters == <<manual_additions, cancellations, unknown_counter>>

\* A handler that returns before it does anything.
Returns(name) ==
    /\ Ran(name, "returned")
    /\ NoStoreCall
    /\ UNCHANGED <<tree, all_iids, scan_focus_ctx, notes_box, scan_focus_timer,
                   Counters>>
    /\ UIFrame

(***************************************************************************)
(* Handlers of the scan window.  A handler of the focus view is the        *)
(* command of a button; a specification of the window calls it when its    *)
(* button is among the buttons shown.                                      *)
(***************************************************************************)
\* ScanWindow.scan_on_open_row, with scan_handle_auto_attend.
scan_on_open_row(name, iid, card_id, tag, io) ==
    IF read_only \/ iid \notin DOMAIN tree THEN Returns(name)
    ELSE
    LET context    == scan_build_context_for_iid(iid)
        ctx        == IF card_id # <<>> THEN [context EXCEPT !.card_id = card_id]
                      ELSE context
        typed      == scan_collect_new_note(shown_notes(ctx))
        final_note == scan_append_notes(ctx.existing_notes, typed)
        success    == set_attendance_ok(iid, "attend", FALSE, io)
    IN  /\ scan_focus_show(ctx)
        /\ IF ctx.status = "ok" /\ ~ctx.already_attended
           THEN /\ RoomFor(iid, final_note)
                /\ scan_commit_attendance(iid, "attend", final_note, tag, io)
                /\ scan_focus_timer' =
                       IF success
                       THEN scan_focus_schedule_clear(scan_focus_show_timer(scan_focus_timer), iid)
                       ELSE scan_focus_show_timer(scan_focus_timer)
                /\ Ran(name, Result(success))
           ELSE /\ NoStoreCall
                /\ tree' = tree
                /\ scan_focus_timer' = scan_focus_show_timer(scan_focus_timer)
                /\ Ran(name, "done")
        /\ UNCHANGED <<all_iids, Counters>>
        /\ UIFrame

\* scan_on_scan without the return on an empty normalized token: the fault
\* the property of the aborted scan must detect.
scan_on_scan_no_abort(token, tag, io) ==
    LET normalized == scan_normalize_card(token)
        matches    == scan_lookup_matches(normalized)
    IN  IF read_only THEN Returns("scan")
        ELSE IF matches = {}
        THEN /\ scan_focus_show(scan_build_not_found_context(normalized))
             /\ scan_focus_timer' = scan_focus_show_timer(scan_focus_timer)
             /\ NoStoreCall
             /\ Ran("scan", "done")
             /\ UNCHANGED <<tree, all_iids, Counters>>
             /\ UIFrame
        ELSE IF Cardinality(matches) > 1
        THEN /\ scan_focus_show(duplicate_context(normalized, matches))
             /\ scan_focus_timer' = scan_focus_show_timer(scan_focus_timer)
             /\ NoStoreCall
             /\ Ran("scan", "done")
             /\ UNCHANGED <<tree, all_iids, Counters>>
             /\ UIFrame
        ELSE scan_on_open_row("scan", CHOOSE m \in matches : TRUE, normalized,
                              tag, io)

\* ScanWindow.scan_on_scan: Return in the scan entry holding token.
scan_on_scan(token, tag, io) ==
    LET normalized == scan_normalize_card(token)
        matches    == scan_lookup_matches(normalized)
    IN  IF read_only \/ normalized = <<>> THEN Returns("scan")
        ELSE IF matches = {}
        THEN /\ scan_focus_show(scan_build_not_found_context(normalized))
             /\ scan_focus_timer' = scan_focus_show_timer(scan_focus_timer)
             /\ NoStoreCall
             /\ Ran("scan", "done")
             /\ UNCHANGED <<tree, all_iids, Counters>>
             /\ UIFrame
        ELSE IF Cardinality(matches) > 1
        THEN /\ scan_focus_show(duplicate_context(normalized, matches))
             /\ scan_focus_timer' = scan_focus_show_timer(scan_focus_timer)
             /\ NoStoreCall
             /\ Ran("scan", "done")
             /\ UNCHANGED <<tree, all_iids, Counters>>
             /\ UIFrame
        ELSE scan_on_open_row("scan", CHOOSE m \in matches : TRUE, normalized,
                              tag, io)

\* ScanWindow.scan_on_row_double_click.  The rows that focus filtering hides
\* are not excluded: closing the focus view shows them again and leads to
\* the same state.
scan_on_row_double_click(iid, tag, io) ==
    /\ iid \in DOMAIN tree
    /\ scan_on_open_row("open_row", iid, <<>>, tag, io)

\* The common body of scan_focus_on_completed, scan_focus_on_override,
\* scan_focus_on_deny and scan_focus_on_cancel_attendance after the test of
\* the context: note, commit, clear on success.
terminal_action(name, attendance, action_note, tag, io) ==
    LET context    == scan_focus_ctx
        base       == scan_append_notes(context.existing_notes, <<action_note>>)
        typed      == scan_collect_new_note(notes_box)
        final_note == scan_append_notes(base, typed)
        success    == set_attendance_ok(context.iid, attendance, FALSE, io)
    IN  /\ RoomFor(context.iid, final_note)
        /\ scan_commit_attendance(context.iid, attendance, final_note, tag, io)
        /\ IF success THEN scan_focus_clear
           ELSE UNCHANGED <<scan_focus_ctx, notes_box, scan_focus_timer>>
        /\ Ran(name, Result(success))
        /\ UNCHANGED all_iids
        /\ UIFrame

described(fallback) ==
    LET desc == scan_describe_tasks(scan_focus_ctx.missing_tasks)
    IN  IF desc = "" THEN fallback ELSE desc

\* ScanWindow.scan_focus_on_completed
scan_focus_on_completed(tag, io) ==
    IF scan_focus_ctx.iid = <<>> THEN Returns("complete")
    ELSE /\ terminal_action("complete", "attend",
                tag \o " Completed " \o described("task") \o " at center.",
                tag, io)
         /\ UNCHANGED Counters

\* ScanWindow.scan_focus_on_override
scan_focus_on_override(tag, io) ==
    IF scan_focus_ctx.iid = <<>> THEN Returns("override")
    ELSE /\ terminal_action("override", "attend",
                tag \o " Attended with override (missing "
                    \o described("task") \o ").",
                tag, io)
         /\ UNCHANGED Counters

\* scan_focus_on_deny that commits the attendance "attend": the fault the
\* property of the attendance after an action must detect.
scan_focus_on_deny_attends(tag, io) ==
    IF scan_focus_ctx.iid = <<>> THEN Returns("deny")
    ELSE /\ terminal_action("deny", "attend",
                tag \o " Denied Entry: No " \o described("requirements") \o ".",
                tag, io)
         /\ UNCHANGED Counters

\* ScanWindow.scan_focus_on_deny
scan_focus_on_deny(tag, io) ==
    IF scan_focus_ctx.iid = <<>> THEN Returns("deny")
    ELSE /\ terminal_action("deny", "",
                tag \o " Denied Entry: No " \o described("requirements") \o ".",
                tag, io)
         /\ UNCHANGED Counters

\* scan_focus_on_cancel_attendance without the test of the context: the
\* fault the property of the handlers on a context without a row must detect.
scan_focus_on_cancel_unguarded(tag, io) ==
    /\ cancellations < MaxCancel
    /\ terminal_action("cancel", "", tag \o " Canceled.", tag, io)
    /\ cancellations' = cancellations + 1
    /\ UNCHANGED <<manual_additions, unknown_counter>>

\* ScanWindow.scan_focus_on_cancel_attendance
scan_focus_on_cancel_attendance(tag, io) ==
    IF scan_focus_ctx.iid = <<>> THEN Returns("cancel")
    ELSE /\ cancellations < MaxCancel
         /\ terminal_action("cancel", "", tag \o " Canceled.", tag, io)
         /\ cancellations' = cancellations + 1
         /\ UNCHANGED <<manual_additions, unknown_counter>>

(***************************************************************************)
(* Manual addition.                                                        *)
(***************************************************************************)
UnknownPrefix == <<"U", "n", "k", "n", "o", "w", "n", " ">>

unknown_id(n) == UnknownPrefix \o <<DecimalChar[n]>>

\* int(card_id.split("Unknown ")[-1]) of a card id that starts with
\* "Unknown ", 0 for another id (a one-digit suffix).
unknown_suffix(card) ==
    IF /\ Len(card) = Len(UnknownPrefix) + 1
       /\ SubSeq(card, 1, Len(UnknownPrefix)) = UnknownPrefix
       /\ \E n \in 1..Len(DecimalChar) : DecimalChar[n] = card[Len(card)]
    THEN CHOOSE n \in 1..Len(DecimalChar) : DecimalChar[n] = card[Len(card)]
    ELSE 0

SetMax(S) == CHOOSE n \in S : \A m \in S : m <= n

\* ScanWindow._next_unknown_card_id: the counter after the call.  The records
\* of the session manager are the rows of the table read at construction.
_next_unknown_counter ==
    (IF unknown_counter = -1
     THEN SetMax({0} \cup {unknown_suffix(loaded[i].card_id) : i \in 1..Len(loaded)})
     ELSE unknown_counter) + 1

\* The values typed in the dialog of a manual addition.
SidNames   == <<"S1", "S2", "S3">>
PhoneNames == <<"P1", "P2", "P3">>

ManualValues ==
    {[student_id |-> SidNames[k], name |-> "Walk-in", phone |-> PhoneNames[k]] :
        k \in 1..MaxAdds}

\* ScanWindow._student_id_or_phone_exists, either answer true.
_student_id_or_phone_exists(values) ==
    \E i \in 1..Len(disk) :
        disk[i].student_id = values.student_id \/ disk[i].phone = values.phone

\* add_student without the test of read_only in _launch_add_student_dialog:
\* the fault the property of the read-only window must detect.
add_student_in_read_only(fromFocus, values, tag, io) ==
    /\ fromFocus => "add_student" \in offered
    /\ IF FALSE THEN Returns("add_student")
       ELSE
       LET card_id       == IF fromFocus THEN scan_focus_ctx.card_id ELSE <<>>
           typed         == IF fromFocus THEN scan_collect_new_note(notes_box)
                            ELSE <<"manual addition">>
           default_notes == IF typed = <<>> THEN <<"manual addition">> ELSE typed
           no_card       == manual_card_id(card_id) = <<>>
           cid           == IF no_card THEN unknown_id(_next_unknown_counter)
                            ELSE manual_card_id(card_id)
           rec           == Rec(cid, values.student_id, values.name, values.phone,
                                "", "", "attend", default_notes, tag)
           row_values    == Cells(cid, values.student_id, values.name,
                                  values.phone, "", "", "attend", default_notes, tag)
           success       == ~add_record_raises(io)
       IN  /\ ~_student_id_or_phone_exists(values)
           /\ RoomFor(cid, default_notes)
           /\ no_card => _next_unknown_counter <= MaxUnknown
           /\ unknown_counter' = IF no_card THEN _next_unknown_counter
                                 ELSE unknown_counter
           /\ StoreCall(rec, io)
           /\ Ran("add_student", Result(success))
           /\ cancellations' = cancellations
           /\ IF success
              THEN /\ manual_additions' = manual_additions + 1
                   /\ tree' = [iid \in DOMAIN tree \cup {cid} |->
                                 IF iid = cid THEN row_values ELSE tree[iid]]
                   /\ all_iids' = IF cid \in DOMAIN tree THEN all_iids
                                  ELSE Append(all_iids, cid)
                   /\ IF scan_focus_ctx.status = "not_found" THEN scan_focus_clear
                      ELSE UNCHANGED <<scan_focus_ctx, notes_box, scan_focus_timer>>
              ELSE UNCHANGED <<manual_additions, tree, all_iids, scan_focus_ctx,
                               notes_box, scan_focus_timer>>
           /\ UIFrame

\* The manual addition from the dialog's confirmation on:
\* AddStudentDialog._on_confirm with ScanWindow._handle_add_student_submission.
\* fromFocus: the dialog was opened by the add-student button of the focus
\* view (scan_focus_on_add_student), otherwise by the button of the top bar
\* (_on_add_student_flow).
add_student(fromFocus, values, tag, io) ==
    /\ fromFocus => "add_student" \in offered
    /\ IF read_only THEN Returns("add_student")
       ELSE
       LET card_id       == IF fromFocus THEN scan_focus_ctx.card_id ELSE <<>>
           typed         == IF fromFocus THEN scan_collect_new_note(notes_box)
                            ELSE <<"manual addition">>
           default_notes == IF typed = <<>> THEN <<"manual addition">> ELSE typed
           no_card       == manual_card_id(card_id) = <<>>
           cid           == IF no_card THEN unknown_id(_next_unknown_counter)
                            ELSE manual_card_id(card_id)
           rec           == Rec(cid, values.student_id, values.name, values.phone,
                                "", "", "attend", default_notes, tag)
           row_values    == Cells(cid, values.student_id, values.name,
                                  values.phone, "", "", "attend", default_notes, tag)
           success       == ~add_record_raises(io)
       IN  /\ ~_student_id_or_phone_exists(values)
           /\ RoomFor(cid, default_notes)
           /\ no_card => _next_unknown_counter <= MaxUnknown
           /\ unknown_counter' = IF no_card THEN _next_unknown_counter
                                 ELSE unknown_counter
           /\ StoreCall(rec, io)
           /\ Ran("add_student", Result(success))
           /\ cancellations' = cancellations
           /\ IF success
              THEN /\ manual_additions' = manual_additions + 1
                   /\ tree' = [iid \in DOMAIN tree \cup {cid} |->
                                 IF iid = cid THEN row_values ELSE tree[iid]]
                   /\ all_iids' = IF cid \in DOMAIN tree THEN all_iids
                                  ELSE Append(all_iids, cid)
                   /\ IF scan_focus_ctx.status = "not_found" THEN scan_focus_clear
                      ELSE UNCHANGED <<scan_focus_ctx, notes_box, scan_focus_timer>>
              ELSE UNCHANGED <<manual_additions, tree, all_iids, scan_focus_ctx,
                               notes_box, scan_focus_timer>>
           /\ UIFrame

(***************************************************************************)
(* The user at the focus view, the timer, and edits of the file from       *)
(* outside the program.                                                    *)
(***************************************************************************)
TypedTexts == {<<>>, <<"late">>}

\* The user replaces the text of the notes box of the focus view.
type_note(text) ==
    /\ ~read_only
    /\ scan_focus_ctx.status # "none"
    /\ notes_box' = text
    /\ Ran("type_note", "done")
    /\ NoStoreCall
    /\ UNCHANGED <<tree, all_iids, scan_focus_ctx, scan_focus_timer, Counters>>
    /\ UIFrame

\* The user closes the focus view: WM_DELETE_WINDOW -> scan_focus_clear.
close_focus ==
    /\ scan_focus_ctx.status # "none"
    /\ scan_focus_clear
    /\ Ran("close_focus", "done")
    /\ NoStoreCall
    /\ UNCHANGED <<tree, all_iids, Counters>>
    /\ UIFrame

\* The timer of scan_focus_schedule_clear fires: scan_focus_clear.
timer_fires ==
    /\ \E iid \in scan_focus_timer.pending :
          scan_focus_clear_from([scan_focus_timer EXCEPT !.pending = @ \ {iid}])
    /\ Ran("timer", "done")
    /\ NoStoreCall
    /\ UNCHANGED <<tree, all_iids, Counters>>
    /\ UIFrame

UIUnchanged == UNCHANGED <<loaded, restrictions, read_only, columns, tree, all_iids,
                           scan_focus_ctx, notes_box, scan_focus_timer, Counters>>

\* Another program edits a cell of a column the program does not write.
external_edit(i) ==
    /\ i \in 1..Len(disk)
    /\ disk[i].extra = ""
    /\ Cardinality({j \in 1..Len(disk) : disk[j].extra # ""}) < MaxEdits
    /\ disk' = [disk EXCEPT ![i].extra = "edited"]
    /\ last' = NoLast
    /\ Ran("external_edit", "done")
    /\ UIUnchanged
    /\ UNCHANGED <<procVars, sideVars>>

(***************************************************************************)
(* The settings window.                                                    *)
(***************************************************************************)
\* SettingsWindow.mapping_fields: the logical fields of the column map.
MapFields == {"card_id", "student_id", "name", "phone", "attendance", "notes",
              "timestamp", "exam", "homework"}

\* A column map as App loads it from MAPPING_FILE.
SavedMap ==
    [card_id |-> "RFID", student_id |-> "Code", name |-> "Name", phone |-> "Phone",
     attendance |-> "Present", notes |-> "Notes", timestamp |-> "Time",
     exam |-> "Exam", homework |-> "HW"]

\* The controls of a window that is not there.
NoControls == [f \in MapFields |-> ""]
NoChecks   == [exam |-> FALSE, homework |-> FALSE]

\* The combo boxes the user changes and the values picked in them; "" is
\* the placeholder "-- Select --".
ComboFields  == {"card_id", "attendance"}
ComboChoices == {"", "RFID", "Present", "Notes"}

\* The outcomes of the two writes of _apply_settings.
SettingsIo == {"ok", "mapping_error", "settings_error"}

\* SettingsWindow._collect_mapping
_collect_mapping == mapping_controls

\* _is_mapping_valid that only looks for an unmapped field: the fault the
\* property of the column map must detect.
is_mapping_valid_any_headers(mapping) ==
    \A f \in MapFields : mapping[f] # ""

\* SettingsWindow._is_mapping_valid on the collected mapping.
_is_mapping_valid(mapping) ==
    /\ \A f \in MapFields : mapping[f] # ""
    /\ Cardinality({mapping[f] : f \in MapFields}) = Cardinality(MapFields)

\* SettingsWindow._update_apply_state: the state of the Apply button.
apply_button == IF _is_mapping_valid(_collect_mapping) THEN "normal" ELSE "disabled"

\* What no handler of the settings window touches.
SettingsFrame ==
    /\ last' = NoLast
    /\ UNCHANGED <<disk, loaded, read_only, columns, tree, all_iids, scan_focus_ctx,
                   notes_box, scan_focus_timer, Counters, procVars, normVars,
                   noteVars, appVars>>

\* App.open_settings with SettingsWindow.__init__: the controls show the
\* current column map and the current restrictions.
open_settings ==
    /\ ~settings_window
    /\ settings_window' = TRUE
    /\ mapping_controls' = column_map
    /\ var_restrictions' = restrictions
    /\ act' = NoAct
    /\ UNCHANGED <<restrictions, column_map, mapping_file, settings_file>>
    /\ SettingsFrame

\* The user picks a value in a combo box: SettingsWindow._on_mapping_change.
_on_mapping_change(field_key, value) ==
    /\ settings_window
    /\ mapping_controls[field_key] # value
    /\ mapping_controls' = [mapping_controls EXCEPT ![field_key] = value]
    /\ act' = NoAct
    /\ UNCHANGED <<settings_window, var_restrictions, restrictions, column_map,
                   mapping_file, settings_file>>
    /\ SettingsFrame

\* The user toggles a check box of the restrictions tab.
toggle_restriction(task) ==
    /\ settings_window
    /\ var_restrictions' = [var_restrictions EXCEPT ![task] = ~@]
    /\ act' = NoAct
    /\ UNCHANGED <<settings_window, mapping_controls, restrictions, column_map,
                   mapping_file, settings_file>>
    /\ SettingsFrame

\* SettingsWindow.on_close
on_close ==
    /\ settings_window' = FALSE
    /\ mapping_controls' = NoControls
    /\ var_restrictions' = NoChecks

\* SettingsWindow._apply_settings, the command of the Apply button.  The
\* handler tests the mapping itself; SETTINGS["restrictions"] is updated in
\* place before SETTINGS_FILE is written.
_apply_settings(io) ==
    /\ settings_window
    /\ SettingsFrame
    /\ IF ~_is_mapping_valid(_collect_mapping)
       THEN /\ act' = [name |-> "apply_settings", result |-> "rejected"]
            /\ UNCHANGED <<restrictions, settingsVars>>
       ELSE IF io = "mapping_error"
       THEN /\ act' = [name |-> "apply_settings", result |-> "failed"]
            /\ UNCHANGED <<restrictions, settingsVars>>
       ELSE IF io = "settings_error"
       THEN /\ act' = [name |-> "apply_settings", result |-> "failed"]
            /\ mapping_file' = _collect_mapping
            /\ restrictions' = var_restrictions
            /\ UNCHANGED <<settings_window, mapping_controls, var_restrictions,
                           column_map, settings_file>>
       ELSE /\ act' = [name |-> "apply_settings", result |-> "committed"]
            /\ mapping_file' = _collect_mapping
            /\ restrictions' = var_restrictions
            /\ settings_file' = [restrictions |-> var_restrictions]
            /\ column_map' = _collect_mapping
            /\ on_close

\* SettingsWindow._cancel
_cancel ==
    /\ settings_window
    /\ on_close
    /\ act' = NoAct
    /\ UNCHANGED <<restrictions, column_map, mapping_file, settings_file>>
    /\ SettingsFrame

\* The application with its settings window closed.
SettingsClosed ==
    /\ settings_window = FALSE
    /\ mapping_controls = NoControls
    /\ var_restrictions = NoChecks
    /\ column_map = SavedMap
    /\ mapping_file = SavedMap
    /\ settings_file = [restrictions |-> restrictions]

(***************************************************************************)
(* The scan window on a session file, the one writer of the file:          *)
(* specification Spec.                                                     *)
(***************************************************************************)
InitCards  == {<<"4">>, zfill(<<"4">>, PadWidth), <<"a", "4">>}
InitGrades == {<<"5", "5">>, <<"", "0">>}
InitMarks  == {<<"", <<>>, "">>,
               <<"attend", <<"[08:00:00] Completed Exam at center.">>, "[08:00:00]">>}

InitRow(card, g, m) ==
    Row(card,
        IF isdigit(card) THEN "S100" ELSE "S200",
        IF isdigit(card) THEN "Amira" ELSE "Basem",
        IF isdigit(card) THEN "P100" ELSE "P200",
        g[1], g[2], "", m[1], m[2], m[3])

InitRows == {InitRow(c, g, m) : c \in InitCards, g \in InitGrades, m \in InitMarks}

\* Session tables whose rows have distinct padded card ids.
InitTables ==
    {<<>>} \cup {<<r>> : r \in {x \in InitRows : x.card_id = <<"4">>}}
    \cup {<<InitRow(zfill(<<"4">>, PadWidth), <<"", "0">>, <<"", <<>>, "">>),
             InitRow(<<"a", "4">>, <<"5", "5">>, m)>> : m \in InitMarks}

ScanTokens == {<<"4">>, <<"a", "4">>, <<Space>>}

Quiet ==
    /\ pc = [p \in Procs |-> "idle"]
    /\ p_df = [p \in Procs |-> <<>>]
    /\ p_rec = [p \in Procs |-> NoRec]
    /\ p_lost = [p \in Procs |-> NoRec]
    /\ scan_entry = <<>>
    /\ norm_out = NoNorm
    /\ SettingsClosed
    /\ append_args = NoArgs
    /\ append_out = <<>>
    /\ AppIdle

\* ScanWindow.__init__ on a session file.
Init ==
    /\ disk \in InitTables
    /\ loaded = disk
    /\ restrictions \in [exam : BOOLEAN, homework : BOOLEAN]
    /\ read_only \in BOOLEAN
    /\ columns = tree_columns(restrictions)
    /\ tree = load_tree(disk, restrictions)
    /\ all_iids = load_iids(disk)
    /\ scan_focus_ctx = NoCtx
    /\ notes_box = Placeholder
    /\ scan_focus_timer = NoTimer
    /\ manual_additions = 0
    /\ cancellations = 0
    /\ unknown_counter = -1
    /\ last = NoLast
    /\ act = NoAct
    /\ Quiet

Next ==
    \/ \E token \in ScanTokens, tag \in NowTags, io \in IoOutcomes :
           scan_on_scan(token, tag, io)
    \/ \E iid \in DOMAIN tree, tag \in NowTags, io \in IoOutcomes :
           scan_on_row_double_click(iid, tag, io)
    \/ \E tag \in NowTags, io \in IoOutcomes :
           "complete" \in offered /\ scan_focus_on_completed(tag, io)
    \/ \E tag \in NowTags, io \in IoOutcomes :
           "override" \in offered /\ scan_focus_on_override(tag, io)
    \/ \E tag \in NowTags, io \in IoOutcomes :
           "deny" \in offered /\ scan_focus_on_deny(tag, io)
    \/ \E tag \in NowTags, io \in IoOutcomes :
           "cancel" \in offered /\ scan_focus_on_cancel_attendance(tag, io)
    \/ \E fromFocus \in BOOLEAN, values \in ManualValues, tag \in NowTags,
          io \in IoOutcomes : add_student(fromFocus, values, tag, io)
    \/ \E text \in TypedTexts : type_note(text)
    \/ close_focus
    \/ timer_fires

Spec == Init /\ [][Next]_vars

(***************************************************************************)
(* Properties of the scan window on a session file.                        *)
(***************************************************************************)
\* The rows of the table df that the card id addresses after normalization.
RowsOfCard(df, card) ==
    {i \in 1..Len(df) : scan_normalize_card(df[i].card_id) = scan_normalize_card(card)}

\* C1: after any sequence of upserts no two rows of the file have the same
\* normalized card id, also when the stored id is the unpadded form of the
\* upserted id.
C1_OneRowPerNormalizedCard ==
    \A i, j \in 1..Len(disk) :
        i # j => scan_normalize_card(disk[i].card_id)
                     # scan_normalize_card(disk[j].card_id)

C7_FileAgreesWithRoster ==
    act.result = "committed" =>
        \A iid \in DOMAIN tree : \A i \in RowsOfCard(disk, iid) :
            /\ disk[i].attendance = tree[iid].attendance
            /\ disk[i].notes = tree[iid].notes
            /\ disk[i].timestamp = tree[iid].timestamp

(***************************************************************************)
(* The session manager under its callers: specification SpecStore.  Any    *)
(* record may be upserted, also one without a timestamp and one for a card *)
(* that is not in the file, and the file is edited from outside between    *)
(* the calls.                                                              *)
(***************************************************************************)
StoreCards  == InitCards
StoreStamps == {"", "[09:15:00]"}

\* What a caller upserts: an attendance with a note, from a roster that
\* shows grades, or a cleared attendance.
StoreMarks  == {<<"7", "9", "attend", <<"late">>>>, <<"", "", "", <<>>>>}

StoreRecs ==
    {Rec(c, IF isdigit(c) THEN "S100" ELSE "S200",
            IF isdigit(c) THEN "Amira" ELSE "Basem",
            IF isdigit(c) THEN "P100" ELSE "P200",
            m[1], m[2], m[3], m[4], ts) :
        c \in StoreCards, m \in StoreMarks, ts \in StoreStamps}

\* SessionManager.add_record, one call.
sm_add_record(rec, io) ==
    /\ StoreCall(rec, io)
    /\ act' = NoAct
    /\ UIUnchanged
    /\ UNCHANGED <<procVars, sideVars>>

InitStore ==
    /\ Init
    /\ ~read_only
    /\ restrictions = [exam |-> TRUE, homework |-> TRUE]

NextStore ==
    \/ \E rec \in StoreRecs, io \in IoOutcomes : sm_add_record(rec, io)
    \/ \E i \in 1..Len(disk) : external_edit(i)

SpecStore == InitStore /\ [][NextStore]_vars

\* The step is a call of add_record that wrote the file.
Upserted == last'.op \in {"update", "append"}

\* The rows of the table df under exactly the card id of the record.
Present(df, rec) == {i \in 1..Len(df) : df[i].card_id = rec.card_id}

\* The columns add_record does not write on its update path.
KeptColumns == {"card_id", "student_id", "name", "phone", "exam", "homework", "extra"}

\* C2: an upsert of a card id that is in the file changes only attendance,
\* notes and timestamp of the matching row: the row count, the other columns
\* of that row and all other rows are as in the file at the start of the
\* call, rows edited from outside since the session was loaded included.
C2_UpdateTouchesThreeCells ==
    [][(Upserted /\ Present(disk, last'.rec) # {}) =>
          /\ Len(disk') = Len(disk)
          /\ \A i \in 1..Len(disk) :
                IF i \in Present(disk, last'.rec)
                THEN \A col \in KeptColumns : disk'[i][col] = disk[i][col]
                ELSE disk'[i] = disk[i]]_vars

\* An update has happened on a file with a row that was edited from outside
\* after the session was loaded, and the edit is still there.
C2_Witness ==
    /\ last.op = "update"
    /\ \E i \in 1..Len(loaded) :
          /\ i \notin Present(disk, last.rec)
          /\ loaded[i].extra = ""
          /\ disk[i].extra = "edited"

\* C3: an upsert of a card id that is not in the file writes a table with
\* exactly one more row, the rows that were there unchanged, and the new row
\* under the record's card id.
C3_AppendAddsOneRow ==
    [][(Upserted /\ Present(disk, last'.rec) = {}) =>
          /\ Len(disk') = Len(disk) + 1
          /\ SubSeq(disk', 1, Len(disk)) = disk
          /\ disk'[Len(disk')].card_id = last'.rec.card_id]_vars

\* An append has happened to a file that had rows.
C3_Witness ==
    /\ last.op = "append"
    /\ Len(disk) >= 2
    /\ disk[Len(disk)].card_id = last.rec.card_id

\* C4: an update with an empty timestamp keeps the stored timestamp, the
\* stored timestamp changes only when the incoming one is not empty, and no
\* upsert clears a stored timestamp that is not empty.
C4_TimestampKept ==
    [][Upserted =>
          /\ \A i \in Present(disk, last'.rec) :
                /\ last'.rec.timestamp = "" => disk'[i].timestamp = disk[i].timestamp
                /\ disk'[i].timestamp # disk[i].timestamp
                       => /\ last'.rec.timestamp # ""
                          /\ disk'[i].timestamp = last'.rec.timestamp
          /\ \A i \in 1..Len(disk) :
                disk[i].timestamp # "" => disk'[i].timestamp # ""]_vars

\* An update without a timestamp has happened on a row that has one.
C4_Witness ==
    /\ last.op = "update"
    /\ last.rec.timestamp = ""
    /\ \E i \in Present(disk, last.rec) : disk[i].timestamp # ""

\* C5: the appended row takes card_id, student_id, name and phone from the
\* record, then attendance, notes and timestamp; every other column, exam
\* and homework included, is empty, also when the record has grades.
C5_AppendedRowColumns ==
    [][(Upserted /\ Present(disk, last'.rec) = {}) =>
          LET row == disk'[Len(disk')]
              rec == last'.rec
          IN  /\ row.card_id = rec.card_id
              /\ row.student_id = rec.student_id
              /\ row.name = rec.name
              /\ row.phone = rec.phone
              /\ row.attendance = rec.attendance
              /\ row.notes = rec.notes
              /\ row.timestamp = rec.timestamp
              /\ row.exam = ""
              /\ row.homework = ""
              /\ row.extra = ""]_vars

\* A record with grades has been appended.
C5_Witness ==
    /\ last.op = "append"
    /\ last.rec.exam # ""
    /\ last.rec.homework # ""
    /\ disk[Len(disk)].card_id = last.rec.card_id
    /\ disk[Len(disk)].student_id = last.rec.student_id

(***************************************************************************)
(* Two processes on one session file: specification SpecConc.  A call of   *)
(* add_record is two steps, read_data and write_data, with nothing that    *)
(* keeps another process out between them.                                 *)
(***************************************************************************)
ConcRecs ==
    {r \in StoreRecs : r.card_id # <<"4">> /\ r.timestamp # ""}

\* add_record up to the end of read_data: the process holds the table read.
add_record_read(p, rec) ==
    /\ pc[p] = "idle"
    /\ pc' = [pc EXCEPT ![p] = "read"]
    /\ p_df' = [p_df EXCEPT ![p] = disk]
    /\ p_rec' = [p_rec EXCEPT ![p] = rec]
    /\ p_lost' = [p_lost EXCEPT ![p] = NoRec]
    /\ last' = NoLast
    /\ act' = NoAct
    /\ UNCHANGED <<disk, sideVars>>
    /\ UIUnchanged

\* The rest of add_record done on the file as it is at the write: what a
\* lock around the call, or a read at the write, would give.
add_record_write_rereads(p) ==
    /\ pc[p] = "read"
    /\ disk' = add_record(disk, p_rec[p])
    /\ pc' = [pc EXCEPT ![p] = "idle"]
    /\ p_lost' = [q \in Procs |->
                    IF q # p /\ pc[q] = "read" THEN p_rec[p] ELSE p_lost[q]]
    /\ last' = [op |-> add_record_op(disk, p_rec[p]), rec |-> p_rec[p],
                proc |-> p, lost |-> p_lost[p]]
    /\ act' = NoAct
    /\ UNCHANGED <<p_df, p_rec, sideVars>>
    /\ UIUnchanged

\* The rest of add_record: the table read is changed and written.  A process
\* that has read and not yet written has from now on a table without this
\* write.
add_record_write(p) ==
    /\ pc[p] = "read"
    /\ disk' = add_record(p_df[p], p_rec[p])
    /\ pc' = [pc EXCEPT ![p] = "idle"]
    /\ p_lost' = [q \in Procs |->
                    IF q # p /\ pc[q] = "read" THEN p_rec[p] ELSE p_lost[q]]
    /\ last' = [op |-> add_record_op(p_df[p], p_rec[p]), rec |-> p_rec[p],
                proc |-> p, lost |-> p_lost[p]]
    /\ act' = NoAct
    /\ UNCHANGED <<p_df, p_rec, sideVars>>
    /\ UIUnchanged

InitConc ==
    /\ Init
    /\ ~read_only
    /\ restrictions = [exam |-> TRUE, homework |-> TRUE]
    /\ \A i \in 1..Len(disk) : pad_card_id(disk[i].card_id) = disk[i].card_id

NextConc ==
    \/ \E p \in Procs, rec \in ConcRecs : add_record_read(p, rec)
    \/ \E p \in Procs : add_record_write(p)

SpecConc == InitConc /\ [][NextConc]_vars

\* The rows of a table under a card id, in the order of the table.
RowsUnder(df, card) == SelectSeq(df, LAMBDA row : row.card_id = card)

\* C8: when two upserts interleave so that both read before either writes,
\* the later write wins and the change of the earlier write is lost: the
\* file holds the later record's values, and the rows of the earlier
\* record's card are those of the table the later writer had read, also
\* when the two cards differ.
C8_LaterWriteWins ==
    (last.proc \in Procs /\ last.lost # NoRec) =>
        LET later == last.proc IN
        /\ RowsUnder(disk, last.rec.card_id) # <<>>
        /\ \A k \in 1..Len(RowsUnder(disk, last.rec.card_id)) :
              /\ RowsUnder(disk, last.rec.card_id)[k].attendance = last.rec.attendance
              /\ RowsUnder(disk, last.rec.card_id)[k].notes = last.rec.notes
        /\ last.lost.card_id # last.rec.card_id
              => RowsUnder(disk, last.lost.card_id)
                     = RowsUnder(p_df[later], last.lost.card_id)
        /\ last.lost.card_id = last.rec.card_id
              => \A k \in 1..Len(RowsUnder(disk, last.rec.card_id)) :
                    RowsUnder(disk, last.rec.card_id)[k].timestamp = last.rec.timestamp

\* Both processes read, one wrote a row for a new card, the other wrote for
\* a different card, and the row of the first is not in the file.
C8_Witness ==
    /\ last.proc \in Procs
    /\ last.lost # NoRec
    /\ last.lost.card_id # last.rec.card_id
    /\ RowsUnder(disk, last.lost.card_id) = <<>>
    /\ RowsUnder(disk, last.rec.card_id) # <<>>

(***************************************************************************)
(* The normalizers on a token: specification SpecNorm.  The text of the    *)
(* scan entry is any token of the bounded alphabet; one step applies every *)
(* place that pads a card id to it.                                        *)
(***************************************************************************)
SeqsUpTo(S, n) == UNION {[1..k -> S] : k \in 0..n}

\* Tokens of any characters, and digit runs that reach past the pad width,
\* bare and between spaces.
NormTokens ==
    SeqsUpTo(Chars, MaxTok)
    \cup SeqsUpTo(Digits, MaxDigits)
    \cup {<<Space>> \o d \o <<Space>> : d \in SeqsUpTo(Digits, MaxDigits)}

\* The window before a session table has rows, the argument registers of
\* scan_append_notes aside.
WindowNoRows ==
    /\ disk = <<>>
    /\ loaded = <<>>
    /\ restrictions = [exam |-> FALSE, homework |-> FALSE]
    /\ read_only = FALSE
    /\ columns = tree_columns(restrictions)
    /\ tree = load_tree(<<>>, restrictions)
    /\ all_iids = <<>>
    /\ scan_focus_ctx = NoCtx
    /\ notes_box = Placeholder
    /\ scan_focus_timer = NoTimer
    /\ manual_additions = 0
    /\ cancellations = 0
    /\ unknown_counter = -1
    /\ last = NoLast
    /\ act = NoAct
    /\ pc = [p \in Procs |-> "idle"]
    /\ p_df = [p \in Procs |-> <<>>]
    /\ p_rec = [p \in Procs |-> NoRec]
    /\ p_lost = [p \in Procs |-> NoRec]
    /\ SettingsClosed

\* The window before a session table has rows.
EmptyWindow ==
    /\ WindowNoRows
    /\ append_args = NoArgs
    /\ append_out = <<>>
    /\ AppIdle

\* The token goes through scan_normalize_card (scan), pad_card_id (load),
\* the three steps of a manual addition, and import_csv as the first value
\* of the card column.
normalize_entry ==
    /\ ~norm_out.done
    /\ norm_out' = [done   |-> TRUE,
                    scan   |-> scan_normalize_card(scan_entry),
                    load   |-> pad_card_id(scan_entry),
                    manual |-> manual_card_id(scan_entry),
                    import |-> import_card_id(scan_entry, 1)]
    /\ UNCHANGED <<scan_entry, storeVars, uiVars, procVars, settingsVars, noteVars,
                   appVars>>

InitNorm ==
    /\ EmptyWindow
    /\ scan_entry \in NormTokens
    /\ norm_out = NoNorm

NextNorm == normalize_entry

SpecNorm == InitNorm /\ [][NextNorm]_vars

\* text is digits left-padded with zeros to exactly the pad width.
PaddedForm(text, digits) ==
    /\ Len(text) = PadWidth
    /\ SubSeq(text, PadWidth - Len(digits) + 1, PadWidth) = digits
    /\ \A i \in 1..(PadWidth - Len(digits)) : text[i] = "0"

IsNan(text) == lower(text) = <<"n", "a", "n">>

\* The claim of the specification as it is written: digit tokens of at most
\* 8 characters are padded to 8, every other token is returned trimmed and
\* unchanged, normalization is idempotent, and scan, load, manual addition
\* and import give the same result.
C9_AsWritten ==
    norm_out.done =>
        LET text == strip(scan_entry) IN
        /\ (isdigit(text) /\ Len(text) <= PadWidth) => PaddedForm(norm_out.scan, text)
        /\ ~isdigit(text) => norm_out.scan = text
        /\ scan_normalize_card(norm_out.scan) = norm_out.scan
        /\ norm_out.load = norm_out.scan
        /\ norm_out.manual = norm_out.scan
        /\ norm_out.import = norm_out.scan

\* C9: digit tokens of at most 8 characters are padded to exactly 8; a token
\* that is not all digits is returned trimmed and unchanged unless its
\* trimmed form is "nan" in any letter case, which gives the empty string;
\* normalization is idempotent; scan, load, manual addition and import give
\* the same result for every token whose trimmed form is neither empty nor
\* "nan".
C9_NormalizationAmended ==
    norm_out.done =>
        LET text == strip(scan_entry) IN
        /\ (isdigit(text) /\ Len(text) <= PadWidth) => PaddedForm(norm_out.scan, text)
        /\ (~isdigit(text) /\ ~IsNan(text)) => norm_out.scan = text
        /\ IsNan(text) => norm_out.scan = <<>>
        /\ scan_normalize_card(norm_out.scan) = norm_out.scan
        /\ (text # <<>> /\ ~IsNan(text)) =>
              /\ norm_out.load = norm_out.scan
              /\ norm_out.manual = norm_out.scan
              /\ norm_out.import = norm_out.scan

\* A digit token between spaces has been padded by every place.
C9_Witness ==
    /\ norm_out.done
    /\ scan_entry = <<Space, "4", "0", Space>>
    /\ norm_out.scan = <<"0", "0", "0", "0", "0", "0", "4", "0">>
    /\ norm_out.import = norm_out.scan

(***************************************************************************)
(* Scans on a loaded roster: specification SpecScan.  The session table is *)
(* any table of the bounded rows that the window can load (the padded ids  *)
(* of its rows are distinct), with padded and legacy unpadded ids and rows *)
(* without a card id; the steps are the scans, the close of the focus view *)
(* and its timer.                                                          *)
(***************************************************************************)
RosterCards == InitCards \cup {<<"n", "a", "n">>}

RosterRows == {InitRow(c, g, m) : c \in RosterCards, g \in InitGrades, m \in InitMarks}

RosterTables ==
    {t \in SeqsUpTo(RosterRows, MaxRows) :
        \A i, j \in 1..Len(t) :
            i # j => pad_card_id(t[i].card_id) # pad_card_id(t[j].card_id)}

RosterTokens == ScanTokens \cup {<<"0", "4">>, <<"n", "a", "n">>, <<"a">>}

InitScan ==
    /\ disk \in RosterTables
    /\ loaded = disk
    /\ restrictions \in [exam : BOOLEAN, homework : BOOLEAN]
    /\ read_only = FALSE
    /\ columns = tree_columns(restrictions)
    /\ tree = load_tree(disk, restrictions)
    /\ all_iids = load_iids(disk)
    /\ scan_focus_ctx = NoCtx
    /\ notes_box = Placeholder
    /\ scan_focus_timer = NoTimer
    /\ manual_additions = 0
    /\ cancellations = 0
    /\ unknown_counter = -1
    /\ last = NoLast
    /\ act = NoAct
    /\ Quiet

NextScan ==
    \/ \E token \in RosterTokens, tag \in NowTags, io \in IoOutcomes :
           scan_on_scan(token, tag, io)
    \/ close_focus
    \/ timer_fires

SpecScan == InitScan /\ [][NextScan]_vars

ScanStatuses == {"not_found", "duplicate", "ok", "missing_exam", "missing_homework"}

\* The roster rows whose stored card id, raw or normalized, is the token.
StoredMatches(normalized) ==
    {iid \in DOMAIN tree :
        \/ tree[iid].card_id = normalized
        \/ scan_normalize_card(tree[iid].card_id) = normalized}

\* The requirements in force that the row has no grade for.
MissingRequirements(iid) ==
    {task \in {"exam", "homework"} :
        restrictions[task] /\ tree[iid][task] \in {"", "0"}}

\* The step is a scan of the token.
Scanned(token) ==
    \E tag \in NowTags, io \in IoOutcomes : scan_on_scan(token, tag, io)

\* The context classifies the token it holds as the claim says.
Classified(ctx) ==
    LET matches == StoredMatches(ctx.card_id)
    IN  /\ ctx.card_id # <<>>
        /\ ctx.status \in ScanStatuses
        /\ matches = {} => ctx.status = "not_found"
        /\ Cardinality(matches) > 1 => ctx.status = "duplicate"
        /\ Cardinality(matches) = 1 =>
              LET iid == CHOOSE m \in matches : TRUE
              IN  /\ ctx.iid = iid
                  /\ MissingRequirements(iid) = {} => ctx.status = "ok"
                  /\ MissingRequirements(iid) # {} =>
                        /\ ctx.status \in {"missing_exam", "missing_homework"}
                        /\ {ctx.missing_tasks[k] : k \in 1..Len(ctx.missing_tasks)}
                               = MissingRequirements(iid)

\* C10: a scan of a token whose normalized form is not empty ends in exactly
\* one status for that form: not_found for no roster row whose stored id,
\* raw or normalized, is the token, duplicate for more than one, and for one
\* row ok when no requirement is missing and a missing-requirement status
\* with the missing set otherwise.
C10_ScanClassification ==
    /\ [][\A token \in RosterTokens :
             (scan_normalize_card(token) # <<>> /\ Scanned(token)) =>
                 /\ scan_focus_ctx'.status \in ScanStatuses
                 /\ scan_focus_ctx'.card_id = scan_normalize_card(token)]_vars
    /\ [](scan_focus_ctx.status # "none" => Classified(scan_focus_ctx))

\* A scan has found the one row of a legacy unpadded id by its normalized
\* form, and the row misses the homework only.
C10_Witness ==
    /\ scan_focus_ctx.status = "missing_homework"
    /\ scan_focus_ctx.iid \in DOMAIN tree
    /\ tree[scan_focus_ctx.iid].card_id # scan_focus_ctx.card_id
    /\ MissingRequirements(scan_focus_ctx.iid) = {"homework"}

(***************************************************************************)
(* The scan window while the settings are applied: specification           *)
(* SpecMidSession.  ScanWindow.restrictions is SessionManager.restrictions *)
(* is SETTINGS["restrictions"], one dictionary that _apply_settings        *)
(* updates in place; the columns of the Treeview are those of the          *)
(* restrictions at the time the window was built.                          *)
(***************************************************************************)
\* A session table of at most one row is enough for one matched record.
InitMidSession ==
    /\ Init
    /\ ~read_only
    /\ Len(disk) <= 1

NextMidSession ==
    \/ \E token \in ScanTokens, tag \in NowTags, io \in IoOutcomes :
           scan_on_scan(token, tag, io)
    \/ close_focus
    \/ timer_fires
    \/ open_settings
    \/ \E task \in {"exam", "homework"} : toggle_restriction(task)
    \/ \E io \in SettingsIo : _apply_settings(io)
    \/ _cancel

SpecMidSession == InitMidSession /\ [][NextMidSession]_vars

\* The grade the record under iid has for a task in the session table.
RecordGrade(iid, task) ==
    LET i == CHOOSE j \in 1..Len(loaded) : pad_card_id(loaded[j].card_id) = iid
    IN  loaded[i][task]

TasksOf(missing) == {missing[k] : k \in 1..Len(missing)}

\* The step shows the context of one matched record.
ShowsRecord ==
    /\ scan_focus_ctx' # scan_focus_ctx
    /\ scan_focus_ctx'.iid # <<>>

\* C11: for a single matched record the missing set contains exam exactly
\* when the exam restriction is enabled and the record's exam grade is empty
\* or "0", and homework exactly when the homework restriction is enabled and
\* the homework grade is empty or "0"; a disabled restriction does not
\* contribute.
C11_MissingSetFollowsRestrictions ==
    [][ShowsRecord =>
          \A task \in {"exam", "homework"} :
              (task \in TasksOf(scan_focus_ctx'.missing_tasks))
                  <=> (/\ restrictions[task]
                       /\ RecordGrade(scan_focus_ctx'.iid, task) \in {"", "0"})]_vars

(***************************************************************************)
(* The engine as the methods of the window: specification SpecEngine.     *)
(* The roster is a loaded roster of two rows, or that roster with the card *)
(* cell of one row set to the card of the other, the state for which       *)
(* scan_lookup_matches compares the cell as well as the row id; the        *)
(* handlers of the focus view are called in any context, as their tests of *)
(* the context provide for.                                                *)
(***************************************************************************)
EngineTables ==
    {<<InitRow(zfill(<<"4">>, PadWidth), <<"", "0">>, m),
       InitRow(<<"a", "4">>, <<"5", "5">>, <<"", <<>>, "">>)>> : m \in InitMarks}

Relinked(t, iid, card) == [t EXCEPT ![iid].card_id = card]

InitEngine ==
    /\ disk \in EngineTables
    /\ loaded = disk
    /\ restrictions \in [exam : BOOLEAN, homework : BOOLEAN]
    /\ read_only = FALSE
    /\ columns = tree_columns(restrictions)
    /\ tree \in {load_tree(disk, restrictions),
                 Relinked(load_tree(disk, restrictions), <<"a", "4">>, <<"4">>)}
    /\ all_iids = load_iids(disk)
    /\ scan_focus_ctx = NoCtx
    /\ notes_box = Placeholder
    /\ scan_focus_timer = NoTimer
    /\ manual_additions = 0
    /\ cancellations = 0
    /\ unknown_counter = -1
    /\ last = NoLast
    /\ act = NoAct
    /\ Quiet

EngineTokens == {<<"4">>, <<"a", "4">>, <<"a">>}

NextEngine ==
    \/ \E token \in EngineTokens, tag \in NowTags, io \in IoOutcomes :
           scan_on_scan(token, tag, io)
    \/ \E tag \in NowTags, io \in IoOutcomes : scan_focus_on_completed(tag, io)
    \/ \E tag \in NowTags, io \in IoOutcomes : scan_focus_on_override(tag, io)
    \/ \E tag \in NowTags, io \in IoOutcomes : scan_focus_on_deny(tag, io)
    \/ \E tag \in NowTags, io \in IoOutcomes :
           scan_focus_on_cancel_attendance(tag, io)
    \/ close_focus
    \/ timer_fires

SpecEngine == InitEngine /\ [][NextEngine]_vars

\* The actions of the focus view that the claim gives each status.
ActionsOf(status, attended) ==
    CASE status = "not_found" -> {"add_student"}
      [] status = "duplicate" -> {}
      [] status \in {"missing_exam", "missing_homework"} ->
             {"deny", "override", "complete"}
      [] status = "ok" -> IF attended THEN {"cancel"} ELSE {}
      [] OTHER -> {}

\* C12: the actions offered after a scan are those of the status: add
\* student alone for not_found, none for duplicate, cancel alone for ok on a
\* record that was attended when it was scanned, and exactly deny, override
\* and complete for a missing-requirement status; no other action is
\* offered.
C12_ActionsFollowStatus ==
    /\ [](scan_focus_ctx.status # "none" =>
            offered = ActionsOf(scan_focus_ctx.status,
                                scan_focus_ctx.already_attended))
    /\ [][ShowsRecord =>
            scan_focus_ctx'.already_attended
                = (tree[scan_focus_ctx'.iid].attendance = "attend")]_vars

\* A scan has shown a record that misses a requirement and was attended
\* already: the three actions of the status are offered, cancel is not.
C12_Witness ==
    /\ scan_focus_ctx.status = "missing_exam"
    /\ scan_focus_ctx.already_attended
    /\ offered = {"deny", "override", "complete"}

\* C14: a scan that resolves to two or more records yields status duplicate
\* and changes neither the file nor the roster; while the context is
\* duplicate, not_found or absent the complete, override, deny and cancel
\* handlers change nothing.
C14_DuplicateAndNoRowChangeNothing ==
    /\ [][\A token \in EngineTokens :
             (/\ Cardinality(StoredMatches(scan_normalize_card(token))) >= 2
              /\ Scanned(token)) =>
                 /\ scan_focus_ctx'.status = "duplicate"
                 /\ disk' = disk
                 /\ tree' = tree
                 /\ all_iids' = all_iids]_vars
    /\ [][(/\ scan_focus_ctx.status \in {"duplicate", "not_found", "none"}
           /\ act'.name \in {"complete", "override", "deny", "cancel"}) =>
              /\ act'.result = "returned"
              /\ UNCHANGED <<disk, tree, all_iids, scan_focus_ctx, notes_box,
                             scan_focus_timer, Counters>>]_vars

\* A scan has found two rows for one card, the cancel handler has been called
\* on that context, and file and roster are as they were loaded.
C14_Witness ==
    /\ scan_focus_ctx.status = "duplicate"
    /\ Cardinality(scan_focus_ctx.focus_iids) = 2
    /\ act = [name |-> "cancel", result |-> "returned"]
    /\ cancellations = 0
    /\ disk = loaded
    /\ \A iid \in scan_focus_ctx.focus_iids : tree[iid].attendance = ""

(***************************************************************************)
(* Properties of the terminal actions, under specification Spec.           *)
(***************************************************************************)
TaskTexts == {"Exam", "Homework", "Exam & Homework"}

\* The descriptions of the audit lines, after the tag.
AuditTexts(name) ==
    CASE name = "complete" ->
             {" Completed " \o t \o " at center." : t \in TaskTexts \cup {"task"}}
      [] name = "override" ->
             {" Attended with override (missing " \o t \o ")." :
                 t \in TaskTexts \cup {"task"}}
      [] name = "deny" ->
             {" Denied Entry: No " \o t \o "." : t \in TaskTexts \cup {"requirements"}}
      [] name = "cancel" -> {" Canceled."}
      [] OTHER -> {" Attended."}

ActionNames == {"complete", "override", "deny", "cancel"}

\* line is the tag followed by a description.
TagStamped(line, tag) ==
    \E name \in ActionNames \cup {"scan"} : \E t \in AuditTexts(name) : line = tag \o t

\* The handlers whose audit line the line can be.
AuditKind(line) ==
    {name \in ActionNames :
        \E tag \in NowTags : \E t \in AuditTexts(name) : line = tag \o t}

\* The step shows one matched record on which the scan commits by itself.
AutoAttendCase ==
    /\ ShowsRecord
    /\ scan_focus_ctx'.status = "ok"
    /\ ~scan_focus_ctx'.already_attended

\* C13: a scan that resolves to one record with no missing requirement and
\* attendance not yet "attend" gives status ok and commits, without a
\* further action of the user, the attendance "attend" with a note stamped
\* with the tag of the scan; a scan of a record that is attended commits
\* nothing.
C13_AutoAttendStampsNote ==
    /\ [][(AutoAttendCase /\ last'.op # "fail") =>
            LET iid == scan_focus_ctx'.iid IN
            /\ act'.result = "committed"
            /\ tree'[iid].attendance = "attend"
            /\ \E k \in 1..Len(tree'[iid].notes) :
                  /\ k > Len(tree[iid].notes)
                  /\ TagStamped(tree'[iid].notes[k], tree'[iid].timestamp)]_vars
    /\ [][(ShowsRecord /\ scan_focus_ctx'.already_attended) =>
            /\ disk' = disk
            /\ tree' = tree]_vars

\* The step is a terminal action that was committed.
Committed ==
    /\ act'.result = "committed"
    /\ act'.name \in ActionNames \cup {"scan", "open_row"}

\* C15: every terminal action makes the new notes of the record its prior
\* notes followed by exactly one added audit line "[HH:MM:SS] description";
\* the prior notes are a prefix of the new notes, nothing of them is
\* dropped or repeated.
C15_OneAuditLineAppended ==
    [][Committed =>
          LET iid   == last'.rec.card_id
              prior == tree[iid].notes
              new   == tree'[iid].notes
          IN  /\ Len(new) = Len(prior) + 1
              /\ SubSeq(new, 1, Len(prior)) = prior
              /\ TagStamped(new[Len(new)], last'.rec.timestamp)]_vars

\* C16: after complete and override the attendance of the record is
\* "attend", after deny and cancel it is empty, whatever it was before, in
\* the roster and in the row the upsert wrote; the audit line of each of the
\* four handlers is a line of that handler alone.
C16_AttendanceAfterAction ==
    [][(act'.result = "committed" /\ act'.name \in ActionNames) =>
          LET iid      == scan_focus_ctx.iid
              rec      == last'.rec
              expected == IF act'.name \in {"complete", "override"}
                          THEN "attend" ELSE ""
              line     == rec.notes[Len(scan_focus_ctx.existing_notes) + 1]
          IN  /\ rec.card_id = iid
              /\ tree'[iid].attendance = expected
              /\ Present(disk', rec) # {}
              /\ \A i \in Present(disk', rec) : disk'[i].attendance = expected
              /\ AuditKind(line) = {act'.name}]_vars

\* A record that was attended when the session was loaded has been denied,
\* and its attendance is empty.
C16_Witness ==
    /\ act = [name |-> "deny", result |-> "committed"]
    /\ last.rec.card_id \in DOMAIN tree
    /\ tree[last.rec.card_id].attendance = ""
    /\ \E i \in 1..Len(loaded) :
          /\ pad_card_id(loaded[i].card_id) = last.rec.card_id
          /\ loaded[i].attendance = "attend"

\* The highest Unknown suffix among the records of the roster, 0 for none.
HighestUnknown == SetMax({0} \cup {unknown_suffix(iid) : iid \in DOMAIN tree})

\* C18: a manual addition creates a record with attendance "attend" and the
\* default notes of the caller, "manual addition" for none; without a card
\* id the id of the record is "Unknown N" with N one greater than the
\* highest Unknown suffix among the current records, also after a manual
\* addition that failed.
C18_UnknownIdIsNextSuffix ==
    [][(act'.name = "add_student" /\ act'.result = "committed") =>
          LET rec == last'.rec IN
          /\ rec.attendance = "attend"
          /\ rec.notes \in {<<"manual addition">>, scan_collect_new_note(notes_box)}
          /\ unknown_suffix(rec.card_id) > 0
                => rec.card_id = unknown_id(HighestUnknown + 1)]_vars

\* The step is an attend action on the record: complete or override on the
\* record of the context, or the scan that shows it.
AttendStep(iid) ==
    \/ act'.name \in {"complete", "override"} /\ iid = scan_focus_ctx.iid
    \/ act'.name \in {"scan", "open_row"} /\ iid = scan_focus_ctx'.iid

\* C19: an attend action on a record whose attendance is "attend" already is
\* rejected before anything is changed: the file and the roster are as
\* before, by auto-attend, complete and override alike.
C19_AttendOnAttendedRejected ==
    [][\A iid \in DOMAIN tree :
          (AttendStep(iid) /\ tree[iid].attendance = "attend") =>
              /\ disk' = disk
              /\ tree' = tree
              /\ act'.result # "committed"]_vars

(***************************************************************************)
(* scan_append_notes on texts of characters: specification SpecNotes.      *)
(***************************************************************************)
\* scan_append_notes that joins with a newline also after empty prior
\* notes: the fault the property of the leading separator must detect.
scan_append_notes_always_joins(original, addition) ==
    LET original_clean == _clean_value(original)
        addition_clean == _clean_value(addition)
    IN  IF addition_clean = <<>> THEN original_clean
        ELSE rstrip(original_clean) \o <<Newline>> \o addition_clean

\* ScanWindow.scan_append_notes, on the characters of its arguments.
scan_append_notes_text(original, addition) ==
    LET original_clean == _clean_value(original)
        addition_clean == _clean_value(addition)
    IN  IF addition_clean = <<>> THEN original_clean
        ELSE IF original_clean = <<>> THEN addition_clean
        ELSE rstrip(original_clean) \o <<Newline>> \o addition_clean

NoteChars == {"a", "n", Space, Newline}

\* Notes of any of the characters, and the text "nan" in other cases.
NoteTexts ==
    SeqsUpTo(NoteChars, MaxTok)
    \cup {<<"N", "a", "N">>, <<"N", "a", "n">>, <<Space, "N", "a", "N">>}

append_notes ==
    /\ ~append_args.done
    /\ append_args' = [append_args EXCEPT !.done = TRUE]
    /\ append_out' = scan_append_notes_text(append_args.original, append_args.addition)
    /\ UNCHANGED <<storeVars, uiVars, procVars, normVars, settingsVars, appVars>>

InitNotes ==
    /\ WindowNoRows
    /\ scan_entry = <<>>
    /\ norm_out = NoNorm
    /\ append_args \in [done : {FALSE}, original : NoteTexts, addition : NoteTexts]
    /\ append_out = <<>>
    /\ AppIdle

NextNotes == append_notes

SpecNotes == InitNotes /\ [][NextNotes]_vars

\* The positions of the characters of text that are not whitespace.
Inked(text) == {k \in 1..Len(text) : text[k] \notin Whitespace}

SetMin(S) == CHOOSE n \in S : \A m \in S : n <= m

\* text without the whitespace around it.
Trimmed(text) ==
    IF Inked(text) = {} THEN <<>>
    ELSE SubSeq(text, SetMin(Inked(text)), SetMax(Inked(text)))

\* What the method reads in an argument: the trimmed text, and nothing in
\* the text "nan".
ReadAs(text) == IF IsNan(Trimmed(text)) THEN <<>> ELSE Trimmed(text)

\* C17 (as stated): with empty prior notes the result is exactly the new
\* note, with no leading separator; with non-empty prior notes the result is
\* the prior notes, one newline, then the new note; with an empty addition
\* the result is the prior notes unchanged.
C17_AppendNotesAsWritten ==
    append_args.done =>
        LET original == append_args.original
            addition == append_args.addition
        IN  /\ addition = <<>> => append_out = original
            /\ (original = <<>> /\ addition # <<>>) => append_out = addition
            /\ (original # <<>> /\ addition # <<>>) =>
                   append_out = original \o <<Newline>> \o addition

\* C17 (amended): the method reads both arguments trimmed of the whitespace
\* around them, and the text "nan" in any case as empty.  With empty prior
\* notes the result is the new note as read, with no leading separator; with
\* prior notes and a new note the result is the prior notes as read, one
\* newline, then the new note as read; with an empty addition the result is
\* the prior notes as read.  On arguments that have no whitespace around
\* them and are not "nan" this is the statement above.
C17_AppendNotesOnTrimmedTexts ==
    append_args.done =>
        LET original == ReadAs(append_args.original)
            addition == ReadAs(append_args.addition)
        IN  /\ addition = <<>> => append_out = original
            /\ (original = <<>> /\ addition # <<>>) =>
                   /\ append_out = addition
                   /\ Head(append_out) # Newline
            /\ (original # <<>> /\ addition # <<>>) =>
                   append_out = original \o <<Newline>> \o addition
            /\ (original = append_args.original /\ addition = append_args.addition)
                   => C17_AppendNotesAsWritten

\* Prior notes with a space before them and a new note with a newline after
\* it are joined in their trimmed forms.
C17_Witness ==
    /\ append_args = [done |-> TRUE, original |-> <<Space, "a">>,
                      addition |-> <<"n", Newline>>]
    /\ append_out = <<"a", Newline, "n">>

(***************************************************************************)
(* The settings window on the column map: specification SpecSettings.      *)
(***************************************************************************)
InitSettings ==
    /\ EmptyWindow
    /\ scan_entry = <<>>
    /\ norm_out = NoNorm

NextSettings ==
    \/ open_settings
    \/ \E field_key \in ComboFields, value \in ComboChoices :
           _on_mapping_change(field_key, value)
    \/ \E task \in {"exam", "homework"} : toggle_restriction(task)
    \/ \E io \in SettingsIo : _apply_settings(io)
    \/ _cancel

SpecSettings == InitSettings /\ [][NextSettings]_vars

\* No two logical fields of the map share a header.
Bijective(mapping) ==
    \A f, g \in MapFields :
        (f # g /\ mapping[f] # "" /\ mapping[g] # "") => mapping[f] # mapping[g]

SharesHeader(mapping) == ~Bijective(mapping)

\* C20: Apply accepts and persists a column map only when no two logical
\* fields of it share a header; a map in which two fields share a header
\* leaves the Apply button disabled and is rejected by the handler, and the
\* rejection changes neither the mapping file, the settings file nor the
\* column map of the application.
C20_OnlyBijectiveMapPersisted ==
    /\ [][(mapping_file' # mapping_file \/ column_map' # column_map
             \/ settings_file' # settings_file) =>
            /\ act'.name = "apply_settings"
            /\ Bijective(mapping_controls)
            /\ mapping_file' = mapping_controls]_vars
    /\ [][(act'.name = "apply_settings" /\ SharesHeader(mapping_controls)) =>
            /\ act'.result = "rejected"
            /\ UNCHANGED <<mapping_file, settings_file, column_map, restrictions>>]_vars
    /\ []((settings_window /\ SharesHeader(mapping_controls)) =>
            apply_button = "disabled")

\* Apply was called on a map whose card field and attendance field share a
\* header, after the restrictions were changed in the window: the files and
\* the column map are the saved ones.
C20_Witness ==
    /\ act = [name |-> "apply_settings", result |-> "rejected"]
    /\ settings_window
    /\ mapping_controls["card_id"] = mapping_controls["attendance"]
    /\ mapping_controls["card_id"] # ""
    /\ var_restrictions # restrictions
    /\ mapping_file = SavedMap
    /\ column_map = SavedMap
    /\ settings_file = [restrictions |-> restrictions]

(***************************************************************************)
(* The aborted scan, under specification SpecScan.                         *)
(***************************************************************************)
\* Tokens that are empty after normalization.
EmptyTokens ==
    {<<>>, <<Space>>, <<Space, Space>>, <<Newline>>, <<Space, Newline>>}

\* C21: a scan whose token is empty after normalization, the empty token
\* and tokens of whitespace, returns with no action: the focus context, the
\* notes box, the roster and the session file are as before.
C21_EmptyTokenAborts ==
    /\ \A token \in EmptyTokens : scan_normalize_card(token) = <<>>
    /\ [][\A token \in EmptyTokens :
             Scanned(token) =>
                 /\ act'.result = "returned"
                 /\ UNCHANGED <<disk, tree, all_iids, scan_focus_ctx, notes_box,
                                scan_focus_timer, Counters>>]_vars

\* A scan of an empty token has returned while the focus view shows the
\* record of an earlier scan, which misses a requirement.
C21_Witness ==
    /\ act = [name |-> "scan", result |-> "returned"]
    /\ scan_focus_ctx.status \in {"missing_exam", "missing_homework"}
    /\ scan_focus_ctx.iid \in DOMAIN tree
    /\ disk = loaded

(***************************************************************************)
(* The tabular store adapter, read_data and write_data: specification      *)
(* SpecAdapter.                                                            *)
(***************************************************************************)
\* str.lower() on the letters of the paths.
lowerPathChar(c) ==
    CASE c = "X" -> "x" [] c = "L" -> "l" [] c = "S" -> "s"
      [] c = "C" -> "c" [] c = "V" -> "v" [] OTHER -> c

lowerPath(path) == [i \in 1..Len(path) |-> lowerPathChar(path[i])]

\* str.endswith
endswith(text, suffix) ==
    /\ Len(text) >= Len(suffix)
    /\ SubSeq(text, Len(text) - Len(suffix) + 1, Len(text)) = suffix

DotXlsx == <<".", "x", "l", "s", "x">>

\* path.lower().endswith(".xlsx"), the one test of both functions.
is_xlsx(path) == endswith(lowerPath(path), DotXlsx)

\* The extensions of the paths: the two formats in both cases, other
\* extensions, and none.
PathExtensions ==
    {<<".", "c", "s", "v">>, <<".", "C", "S", "V">>, DotXlsx,
     <<".", "X", "L", "S", "X">>, <<".", "x", "l", "s">>, <<".", "t", "x", "t">>,
     <<".", "j", "s", "o", "n">>, <<".", "x", "l", "s", "x", ".", "b", "a", "k">>,
     <<>>}

PathStems == {<<"s">>, <<"c", "s", "v">>}

Paths == {stem \o ext : stem \in PathStems, ext \in PathExtensions}

\* What pandas does with the stored content: read_excel on a workbook and
\* read_csv on text return a table, anything else raises.
parse(format, content) ==
    IF content = "absent" THEN "io_error"
    ELSE IF format = "excel" /\ content = "xlsx" THEN "table"
    ELSE IF format = "csv" /\ content = "csv" THEN "table"
    ELSE "io_error"

AdapterIo == {"ok", "error"}

AdapterFrame ==
    UNCHANGED <<storeVars, uiVars, procVars, normVars, settingsVars, noteVars,
                adapter_path, sessionVars>>

\* helpers.read_data(path)
read_data ==
    LET format == IF is_xlsx(adapter_path) THEN "excel" ELSE "csv"
    IN  /\ adapter_out' = [op |-> "read", format |-> format,
                           result |-> parse(format, adapter_file)]
        /\ UNCHANGED adapter_file
        /\ AdapterFrame

\* helpers.write_data(df, path); the write raises when the path cannot be
\* written.
write_data(io) ==
    LET format == IF is_xlsx(adapter_path) THEN "excel" ELSE "csv"
    IN  /\ adapter_out' = [op |-> "write", format |-> format,
                           result |-> IF io = "ok" THEN "written" ELSE "io_error"]
        /\ adapter_file' = IF io # "ok" THEN adapter_file
                           ELSE IF format = "excel" THEN "xlsx" ELSE "csv"
        /\ AdapterFrame

\* Another program puts a file under the path, or removes it.
place_file(content) ==
    /\ adapter_file # content
    /\ adapter_file' = content
    /\ adapter_out' = NoCall
    /\ AdapterFrame

InitAdapter ==
    /\ WindowNoRows
    /\ scan_entry = <<>>
    /\ norm_out = NoNorm
    /\ append_args = NoArgs
    /\ append_out = <<>>
    /\ adapter_path \in Paths
    /\ adapter_file \in {"absent", "csv", "xlsx"}
    /\ adapter_out = NoCall
    /\ SessionsIdle

NextAdapter ==
    \/ read_data
    \/ \E io \in AdapterIo : write_data(io)
    \/ \E content \in {"absent", "csv", "xlsx"} : place_file(content)

SpecAdapter == InitAdapter /\ [][NextAdapter]_vars

\* The positions of the dots of the path.
Dots(path) == {k \in 1..Len(path) : path[k] = "."}

\* The extension of the path in lower case: what follows its last dot.
Extension(path) ==
    IF Dots(path) = {} THEN <<>>
    ELSE lowerPath(SubSeq(path, SetMax(Dots(path)) + 1, Len(path)))

Recognized(path) == Extension(path) \in {<<"c", "s", "v">>, <<"x", "l", "s", "x">>}

\* C22: read_data and write_data fail with an I/O error when the extension
\* of the path is neither csv nor xlsx; such a path is never read or written
\* as if it were one of the two formats.
C22_UnknownExtensionFails ==
    [][(adapter_out'.op # "none" /\ ~Recognized(adapter_path)) =>
          /\ adapter_out'.result = "io_error"
          /\ adapter_file' = adapter_file]_vars

(***************************************************************************)
(* The read-only scan window: specification SpecReadOnly.                  *)
(***************************************************************************)
\* App._open_selected_session and PastSessionsWindow open the window with
\* read_only=True.
InitReadOnly ==
    /\ Init
    /\ read_only

\* The events of the window; the handlers of the focus view are called
\* whether or not their buttons are shown.
NextReadOnly ==
    \/ \E token \in ScanTokens, tag \in NowTags, io \in IoOutcomes :
           scan_on_scan(token, tag, io)
    \/ \E iid \in DOMAIN tree, tag \in NowTags, io \in IoOutcomes :
           scan_on_row_double_click(iid, tag, io)
    \/ \E tag \in NowTags, io \in IoOutcomes : scan_focus_on_completed(tag, io)
    \/ \E tag \in NowTags, io \in IoOutcomes : scan_focus_on_override(tag, io)
    \/ \E tag \in NowTags, io \in IoOutcomes : scan_focus_on_deny(tag, io)
    \/ \E tag \in NowTags, io \in IoOutcomes : scan_focus_on_cancel_attendance(tag, io)
    \/ \E fromFocus \in BOOLEAN, values \in ManualValues, tag \in NowTags,
          io \in IoOutcomes : add_student(fromFocus, values, tag, io)

SpecReadOnly == InitReadOnly /\ [][NextReadOnly]_vars

\* C23: in a read-only scan window no sequence of scans, double clicks,
\* complete, override, deny, cancel and add student changes the session
\* file or the attendance, notes or timestamp of a row of the roster: file
\* and roster stay as they were loaded.
C23_ReadOnlyChangesNothing ==
    /\ [](read_only =>
            /\ disk = loaded
            /\ tree = load_tree(loaded, restrictions)
            /\ all_iids = load_iids(loaded))
    /\ [][read_only => UNCHANGED <<disk, tree, all_iids, Counters>>]_vars

\* Add student was called in a read-only window on a roster with a record
\* that is not attended, after a scan; file and roster are the loaded ones.
C23_Witness ==
    /\ read_only
    /\ act = [name |-> "add_student", result |-> "returned"]
    /\ \E iid \in DOMAIN tree : tree[iid].attendance = ""
    /\ disk = loaded
    /\ disk # <<>>

(***************************************************************************)
(* Sessions started and opened from the main window: specification         *)
(* SpecSessions.                                                           *)
(***************************************************************************)
SessionNames == {"S1", "S2"}
FileTypes    == {"csv", "xlsx"}

\* The files of the Sessions folder that the lists show.
SessionPaths == [name : SessionNames, ext : FileTypes]

\* The table of an import, that table as a session file without a record of
\* attendance, and a session file with a record of attendance.
ImportedTable ==
    <<InitRow(zfill(<<"4">>, PadWidth), <<"5", "5">>, <<"", <<>>, "">>),
      InitRow(<<"a", "4">>, <<"5", "5">>, <<"", <<>>, "">>)>>

RecordedTable ==
    <<InitRow(zfill(<<"4">>, PadWidth), <<"5", "5">>,
              <<"attend", <<"[08:00:00] Completed Exam at center.">>, "[08:00:00]">>)>>

FileContents == {NoFile, File(ImportedTable), File(RecordedTable)}

\* os.path.exists(path)
exists(path) == session_files[path].there

\* "xlsx" if file_type == "xlsx" else "csv"
ext_of(type) == IF type = "xlsx" THEN "xlsx" ELSE "csv"

\* SessionManager.__init__: session_path is SESSIONS_FOLDER/name.ext with
\* the extension of the file_type setting.
sm_session_path(name) == [name |-> name, ext |-> ext_of(file_type)]

SessionsFrame ==
    UNCHANGED <<storeVars, uiVars, procVars, normVars, settingsVars, noteVars,
                adapterVars>>

\* _on_session_setup_finished that writes the imported data whether or not
\* the file exists: the fault the property of the kept file must detect.
on_session_setup_finished_overwrites(name) ==
    LET path   == [name |-> name, ext |-> ext_of(file_type)]
        files1 == [session_files EXCEPT ![path] = data_df]
    IN  /\ data_df # NoFile
        /\ session_files' = files1
        /\ session_path' = sm_session_path(name)
        /\ opened' = [by |-> "start", selected |-> path, created |-> TRUE,
                      ok |-> TRUE, df |-> files1[sm_session_path(name)]]
        /\ UNCHANGED <<file_type, data_df, import_file>>
        /\ SessionsFrame

\* App._on_session_setup_finished with the payload of the dialog, then
\* SessionManager.__init__ and ScanWindow.__init__, which reads the table of
\* the session manager's path.
_on_session_setup_finished(name) ==
    LET path    == [name |-> name, ext |-> ext_of(file_type)]
        created == ~exists(path)
        files1  == IF created THEN [session_files EXCEPT ![path] = data_df]
                   ELSE session_files
    IN  /\ data_df # NoFile
        /\ session_files' = files1
        /\ session_path' = sm_session_path(name)
        /\ opened' = [by |-> "start", selected |-> path, created |-> created,
                      ok |-> TRUE, df |-> files1[sm_session_path(name)]]
        /\ UNCHANGED <<file_type, data_df, import_file>>
        /\ SessionsFrame

\* App._open_session_path(path_entry, read_only=True) from a list: the
\* session manager is built from the name of the file; ScanWindow.__init__
\* reads the session manager's path and raises when no file is there, which
\* the handler reports as "Open Failed".
_open_session_path(path_entry) ==
    LET name == path_entry.name
        path == sm_session_path(name)
    IN  /\ exists(path_entry)
        /\ session_path' = path
        /\ opened' = [by |-> "open", selected |-> path_entry, created |-> FALSE,
                      ok |-> exists(path), df |-> session_files[path]]
        /\ UNCHANGED <<file_type, session_files, data_df, import_file>>
        /\ SessionsFrame

\* Apply in the settings window with another file type.
set_file_type(type) ==
    /\ file_type # type
    /\ file_type' = type
    /\ UNCHANGED <<session_files, data_df, session_path, opened, import_file>>
    /\ SessionsFrame

InitSessions ==
    /\ WindowNoRows
    /\ scan_entry = <<>>
    /\ norm_out = NoNorm
    /\ append_args = NoArgs
    /\ append_out = <<>>
    /\ AdapterIdle
    /\ file_type \in FileTypes
    /\ session_files \in [SessionPaths -> FileContents]
    /\ data_df = File(ImportedTable)
    /\ session_path = NoPath
    /\ opened = NoOpened
    /\ import_file = NoImport

NextSessions ==
    \/ \E name \in SessionNames : _on_session_setup_finished(name)
    \/ \E path_entry \in SessionPaths : _open_session_path(path_entry)
    \/ \E type \in FileTypes : set_file_type(type)

SpecSessions == InitSessions /\ [][NextSessions]_vars

C28_OpensSelectedFile ==
    [][\A path_entry \in SessionPaths :
          _open_session_path(path_entry) =>
              /\ session_path' = path_entry
              /\ opened'.ok
              /\ opened'.df = session_files[path_entry]]_vars

(***************************************************************************)
(* A scan run on a session of at most one record, with scans, the actions  *)
(* of the focus view and manual additions: specification SpecRun.          *)
(***************************************************************************)
InitRun ==
    /\ Init
    /\ ~read_only
    /\ Len(disk) <= 1

NextRun == Next

SpecRun == InitRun /\ [][NextRun]_vars

\* The sequence has no element twice.
NoRepeats(seq) == \A i, j \in 1..Len(seq) : i # j => seq[i] # seq[j]

C26_CountersCountCommits ==
    [][/\ cancellations' = cancellations +
             (IF act' = [name |-> "cancel", result |-> "committed"] THEN 1 ELSE 0)
       /\ manual_additions' = manual_additions +
             (IF act' = [name |-> "add_student", result |-> "committed"] THEN 1 ELSE 0)]_vars

\* The number of the rows of the roster that satisfy the test.
CountRows(Test(_)) == Cardinality({k \in 1..Len(all_iids) : Test(all_iids[k])})

\* ScanWindow._compute_summary_metrics; a count of a restriction that is off
\* is not in the summary, here -1.
_compute_summary_metrics ==
    LET attended_row(iid) == iid \in DOMAIN tree
                             /\ scan_tree_get(iid, "attendance") = "attend"
        no_exam(iid)      == iid \in DOMAIN tree /\ scan_tree_get(iid, "exam") = ""
        no_homework(iid)  == iid \in DOMAIN tree /\ scan_tree_get(iid, "homework") = ""
    IN  [total        |-> Len(all_iids),
         attended     |-> CountRows(attended_row),
         missing_exam |-> IF restrictions["exam"] THEN CountRows(no_exam) ELSE -1,
         missing_hw   |-> IF restrictions["homework"] THEN CountRows(no_homework)
                          ELSE -1]

\* The rows for which a scan puts the task in the missing set.
ScanMisses(task) ==
    {iid \in DOMAIN tree : task \in TasksOf(scan_collect_missing_tasks(iid))}

\* C27: the counts missing_exam and missing_hw of the summary are the
\* numbers of the rows of the roster for which a scan puts exam and homework
\* in the missing set, the rows whose grade is empty or "0"; attended is the
\* number of the rows with attendance "attend" and is never more than total.
C27_SummaryAgreesWithScans ==
    LET metrics == _compute_summary_metrics IN
    /\ restrictions["exam"] =>
          /\ metrics.missing_exam = Cardinality(ScanMisses("exam"))
          /\ metrics.missing_exam =
                Cardinality({iid \in DOMAIN tree : tree[iid].exam \in {"", "0"}})
    /\ restrictions["homework"] =>
          /\ metrics.missing_hw = Cardinality(ScanMisses("homework"))
          /\ metrics.missing_hw =
                Cardinality({iid \in DOMAIN tree : tree[iid].homework \in {"", "0"}})
    /\ metrics.attended =
          Cardinality({iid \in DOMAIN tree : tree[iid].attendance = "attend"})
    /\ metrics.attended <= metrics.total

(***************************************************************************)
(* The import of a data file: specification SpecImport.                    *)
(***************************************************************************)
\* The values of the card column of a file, and the marks a file of an
\* earlier session carries.
ImportCards == {<<"4">>, <<Space, "4">>, <<"a", "4">>, <<>>, <<Space>>,
                <<"n", "a", "N">>}
ImportMarks == {<<"", "">>, <<"attend", "[08:00:00]">>}

ImportRows ==
    {Row(card, "S100", "Amira", "P100", "5", "5", "", m[1], <<>>, m[2]) :
        card \in ImportCards, m \in ImportMarks}

\* A file with the mapped card column, and a file without it, whose rows
\* have no card value.
ImportFiles ==
    {[columns |-> {"card_id", "attendance", "timestamp"}, rows |-> t] :
        t \in SeqsUpTo(ImportRows, MaxRows)}
    \cup {[columns |-> {"attendance", "timestamp"}, rows |-> t] :
            t \in SeqsUpTo({x \in ImportRows : x.card_id = <<>>}, MaxRows)}

\* The number of blank ids among the first k values of the card column.
Blanks(rows, k) ==
    Cardinality({i \in 1..k : LET val_str == strip(rows[i].card_id)
                              IN  val_str = <<>> \/ lower(val_str) = <<"n", "a", "n">>})

\* App.import_csv on the file chosen in the dialog: the card column is
\* rewritten when the file has it, attendance and timestamp are cleared when
\* the file has them, and the table becomes data_df.
import_csv(df) ==
    LET new_card_id(i) ==
            IF "card_id" \in df.columns
            THEN import_card_id(df.rows[i].card_id,
                                IF Blanks(df.rows, i) = 0 THEN 1 ELSE Blanks(df.rows, i))
            ELSE df.rows[i].card_id
        imported_row(i) ==
            [df.rows[i] EXCEPT
                !.card_id    = new_card_id(i),
                !.attendance = IF "attendance" \in df.columns THEN "" ELSE @,
                !.timestamp  = IF "timestamp" \in df.columns THEN "" ELSE @]
    IN  /\ import_file' = df
        /\ data_df' = File([i \in 1..Len(df.rows) |-> imported_row(i)])
        /\ UNCHANGED <<file_type, session_files, session_path, opened>>
        /\ SessionsFrame

InitImport ==
    /\ WindowNoRows
    /\ scan_entry = <<>>
    /\ norm_out = NoNorm
    /\ append_args = NoArgs
    /\ append_out = <<>>
    /\ AdapterIdle
    /\ file_type = "xlsx"
    /\ session_files = <<>>
    /\ data_df = NoFile
    /\ session_path = NoPath
    /\ opened = NoOpened
    /\ import_file = NoImport

NextImport == \E df \in ImportFiles : import_csv(df)

SpecImport == InitImport /\ [][NextImport]_vars

NullId(n) == <<"n", "u", "l", "l", " ", DecimalChar[n]>>

\* C30: after a successful import every row of the imported table has a
\* normalized card id that is not empty: ids of digits are padded with
\* zeros to 8 characters, blank ids are "null 1", "null 2", ... in the order
\* of the rows and pairwise distinct, the other ids are kept trimmed; the
\* attendance and the timestamp of every row are empty.
C30_ImportNormalizesCards ==
    data_df.there =>
        LET rows == data_df.table
            src  == import_file.rows
        IN  /\ Len(rows) = Len(src)
            /\ \A i \in 1..Len(rows) :
                  LET text == strip(src[i].card_id)
                      id   == rows[i].card_id
                  IN  /\ id # <<>>
                      /\ scan_normalize_card(id) = id
                      /\ isdigit(text) => PaddedForm(id, text)
                      /\ (text = <<>> \/ IsNan(text)) => id = NullId(Blanks(src, i))
                      /\ (text # <<>> /\ ~IsNan(text) /\ ~isdigit(text)) => id = text
                      /\ rows[i].attendance = ""
                      /\ rows[i].timestamp = ""
            /\ \A i, j \in 1..Len(rows) :
                  (i # j /\ Blanks(src, i) # Blanks(src, j)) =>
                      rows[i].card_id # rows[j].card_id

(***************************************************************************)
(* The auto-clear timer of the focus view: specification SpecTimer.  Tk    *)
(* runs a callback that is due when the event loop is idle, so a pending   *)
(* timer that is not cancelled fires: weak fairness of timer_fires.        *)
(***************************************************************************)
\* A session without grade requirements: a card that is found is attended
\* by its scan.
InitTimer == InitScan /\ restrictions = [exam |-> FALSE, homework |-> FALSE]

NextTimer ==
    \/ \E token \in RosterTokens, tag \in NowTags, io \in IoOutcomes :
           scan_on_scan(token, tag, io)
    \/ \E iid \in DOMAIN tree, tag \in NowTags, io \in IoOutcomes :
           scan_on_row_double_click(iid, tag, io)
    \/ \E tag \in NowTags, io \in IoOutcomes :
           "cancel" \in offered /\ scan_focus_on_cancel_attendance(tag, io)
    \/ close_focus
    \/ timer_fires

SpecTimer == InitTimer /\ [][NextTimer]_vars /\ WF_vars(timer_fires)

\* The ids of the rows of the rosters.
RosterIids == {pad_card_id(r.card_id) : r \in RosterRows}

\* The focus view shows the context of the auto-attend of row iid.
ShowsAutoAttendOf(iid) ==
    /\ scan_focus_ctx.iid = iid
    /\ scan_focus_ctx.status = "ok"
    /\ ~scan_focus_ctx.already_attended

\* The step shows a context in the focus view that it did not show before.
ShowsNewContext == scan_focus_ctx' # NoCtx /\ scan_focus_ctx' # scan_focus_ctx

\* C29: at most one auto-clear timer is pending, and it is the one
\* scan_focus_timer holds; a step that shows a new context leaves no timer
\* pending but the one its own committed auto-attend scheduled, so a pending
\* timer always belongs to the context shown; and a pending timer leads to
\* the focus view cleared or showing the context of a later scan.
C29_OneTimerClearsItsOwnContext ==
    /\ [](/\ Cardinality(scan_focus_timer.pending) <= 1
          /\ scan_focus_timer.pending \subseteq {scan_focus_timer.id}
          /\ \A iid \in scan_focus_timer.pending :
                ShowsAutoAttendOf(iid) /\ tree[iid].attendance = "attend")
    /\ [][ShowsNewContext =>
             \/ scan_focus_timer'.pending = {}
             \/ /\ scan_focus_timer'.pending = {scan_focus_ctx'.iid}
                /\ act'.name \in {"scan", "open_row"}
                /\ act'.result = "committed"]_vars
    /\ \A iid \in RosterIids :
          (iid \in scan_focus_timer.pending) ~>
              (scan_focus_ctx = NoCtx \/ ~ShowsAutoAttendOf(iid))

\* The auto-attend of a second card is committed and its timer is pending
\* after the timer of the first card was replaced or has fired.
C29_Witness ==
    /\ scan_focus_timer.pending = {scan_focus_ctx.iid}
    /\ act = [name |-> "scan", result |-> "committed"]
    /\ \E i \in 1..Len(loaded) :
          LET iid == pad_card_id(loaded[i].card_id)
          IN  /\ iid # scan_focus_ctx.iid
              /\ loaded[i].attendance = ""
              /\ tree[iid].attendance = "attend"

====
